---- MODULE Spec2Model ----
(***************************************************************************)
(* A model of caliber's journal storage engine (src/src/storage.rs).       *)
(*                                                                         *)
(* A Rust string is a sequence of one-character strings; offsets are the   *)
(* 0-based byte offsets of the source (every character of the model's      *)
(* alphabet is one byte).  An Option is its value, or None.  A NaiveDate   *)
(* is the number year*10000 + month*100 + day, which orders as dates do.   *)
(* The alphabet has no '\r', no tab and no sign character in front of a    *)
(* year, so chrono's lenient forms of a header never arise.                *)
(***************************************************************************)
EXTENDS Integers, Sequences, FiniteSets, TLC

\* journal: the text of the active journal file; today: the local date;
\* left: the storage calls the run may still make; last: the last call made;
\* app: the current date, the loaded lines and the filter view of the App;
\* context: JOURNAL_CONTEXT, the two journal paths and the active slot;
\* disk: the journal files by path, for the runs that switch journals
VARIABLES journal, today, left, last, app, context, disk

vars == <<journal, today, left, last, app, context, disk>>

(***************************************************************************)
(* Journal context                                                         *)
(***************************************************************************)
Global == "JournalSlot::Global"

Project == "JournalSlot::Project"

\* Option<PathBuf>::None
NoPath == "None"

\* get_journal_path(): the configured default journal
DefaultPath == "journal.md"

\* JOURNAL_CONTEXT: None, or Some(JournalContext)
JournalContext(global, project, active) ==
    [some |-> TRUE, global_path |-> global, project_path |-> project, active |-> active]

NoContext ==
    [some |-> FALSE, global_path |-> NoPath, project_path |-> NoPath, active |-> Global]

\* no journal file exists
NoDisk == [p \in {} |-> <<>>]

set_active_slot(ctx, slot) ==
    IF ctx.some THEN [ctx EXCEPT !.active = slot] ELSE ctx

set_project_path(ctx, path) ==
    IF ctx.some THEN [ctx EXCEPT !.project_path = path] ELSE ctx

\* get_active_journal_path that never looks at the active slot
get_active_journal_path_GlobalOnly(ctx) ==
    IF ~ctx.some THEN DefaultPath ELSE ctx.global_path

get_active_journal_path(ctx) ==
    IF ~ctx.some THEN DefaultPath
    ELSE IF ctx.active = Global THEN ctx.global_path
    ELSE IF ctx.project_path # NoPath THEN ctx.project_path
    ELSE ctx.global_path

\* load_journal: the text of the active file, "" when it does not exist
load_journal(ctx, files) ==
    CHOOSE text \in
        {IF path \in DOMAIN files THEN files[path] ELSE <<>> :
            path \in {get_active_journal_path(ctx)}} : TRUE

\* save_journal: fs::write on the active path
save_journal(ctx, files, content) ==
    CHOOSE written \in
        {[p \in DOMAIN files \cup {path} |-> IF p = path THEN content ELSE files[p]] :
            path \in {get_active_journal_path(ctx)}} : TRUE

None == 0 - 1

(***************************************************************************)
(* str primitives                                                          *)
(***************************************************************************)
Whitespace == {" ", "\n", "\r", "\t"}

Digits == <<"0", "1", "2", "3", "4", "5", "6", "7", "8", "9">>

IsDigit(c) == \E i \in 1..Len(Digits) : Digits[i] = c

DigitVal(c) == (CHOOSE i \in 1..Len(Digits) : Digits[i] = c) - 1

\* &s[from..to]
Slice(s, from, to) == SubSeq(s, from + 1, to)

\* &s[from..]
From(s, from) == SubSeq(s, from + 1, Len(s))

starts_with(s, p) == Len(p) <= Len(s) /\ SubSeq(s, 1, Len(p)) = p

\* str::find: the offset of the first occurrence of pat in s, or None
find(s, pat) ==
    LET hits == {i \in 0..(Len(s) - Len(pat)) : Slice(s, i, i + Len(pat)) = pat}
    IN  IF hits = {} THEN None ELSE CHOOSE i \in hits : \A j \in hits : i <= j

RECURSIVE trim_end(_)
trim_end(s) ==
    IF s # <<>> /\ s[Len(s)] \in Whitespace THEN trim_end(SubSeq(s, 1, Len(s) - 1)) ELSE s

RECURSIVE trim_start(_)
trim_start(s) ==
    IF s # <<>> /\ s[1] \in Whitespace THEN trim_start(Tail(s)) ELSE s

trim(s) == trim_start(trim_end(s))

\* str::lines: split at "\n" (a "\r" before it is dropped); a final empty
\* piece is no line
RECURSIVE lines(_)
lines(s) ==
    IF s = <<>> THEN <<>>
    ELSE LET i == find(s, <<"\n">>)
         IN  IF i = None THEN <<s>>
             ELSE LET l == Slice(s, 0, i)
                      l2 == IF l # <<>> /\ l[Len(l)] = "\r" THEN SubSeq(l, 1, Len(l) - 1) ELSE l
                  IN  <<l2>> \o lines(From(s, i + 1))

\* [String]::join
RECURSIVE join(_, _)
join(ss, sep) ==
    IF ss = <<>> THEN <<>>
    ELSE IF Len(ss) = 1 THEN ss[1]
    ELSE ss[1] \o sep \o join(Tail(ss), sep)

\* str::split('/')
RECURSIVE split(_, _)
split(s, c) ==
    LET i == find(s, <<c>>)
    IN  IF i = None THEN <<s>> ELSE <<Slice(s, 0, i)>> \o split(From(s, i + 1), c)

\* str::parse::<u32>: the value of a non-empty run of digits, else None
RECURSIVE DigitsValue(_)
DigitsValue(s) ==
    IF s = <<>> THEN 0 ELSE DigitsValue(SubSeq(s, 1, Len(s) - 1)) * 10 + DigitVal(s[Len(s)])

AllDigits(s) == \A i \in 1..Len(s) : IsDigit(s[i])

parse_u32(s) == IF s # <<>> /\ AllDigits(s) THEN DigitsValue(s) ELSE None

(***************************************************************************)
(* chrono::NaiveDate                                                       *)
(***************************************************************************)
year(date) == date \div 10000

month(date) == (date \div 100) % 100

day(date) == date % 100

IsLeap(y) == (y % 4 = 0 /\ y % 100 # 0) \/ y % 400 = 0

DaysInMonth(y, m) ==
    IF m = 2 THEN (IF IsLeap(y) THEN 29 ELSE 28)
    ELSE IF m \in {4, 6, 9, 11} THEN 30 ELSE 31

from_ymd_opt(y, m, d) ==
    IF m \in 1..12 /\ d >= 1 /\ d <= DaysInMonth(y, m)
    THEN y * 10000 + m * 100 + d
    ELSE None

\* format!("{:0width$}")
RECURSIVE Pad(_, _)
Pad(n, width) ==
    IF width = 0 THEN <<>> ELSE Pad(n \div 10, width - 1) \o <<Digits[(n % 10) + 1]>>

\* date.format("%Y/%m/%d")
format_ymd(date) ==
    Pad(year(date), 4) \o <<"/">> \o Pad(month(date), 2) \o <<"/">> \o Pad(day(date), 2)

\* NaiveDate::parse_from_str(s, "%Y/%m/%d"): up to 4 digits of year, up to
\* 2 of month and of day, nothing left over
parse_from_str_ymd(s) ==
    CHOOSE date \in
        {IF /\ Len(parts) = 3
            /\ Len(parts[1]) \in 1..4 /\ AllDigits(parts[1])
            /\ Len(parts[2]) \in 1..2 /\ AllDigits(parts[2])
            /\ Len(parts[3]) \in 1..2 /\ AllDigits(parts[3])
         THEN from_ymd_opt(DigitsValue(parts[1]), DigitsValue(parts[2]), DigitsValue(parts[3]))
         ELSE None : parts \in {split(s, "/")}} : TRUE

(***************************************************************************)
(* Entry model                                                             *)
(***************************************************************************)
TaskOpen == "Task{completed:false}"

TaskDone == "Task{completed:true}"

Note == "Note"

Event == "Event"

\* EntryType::prefix
prefix(entry_type) ==
    IF entry_type = TaskOpen THEN <<"-", " ", "[", " ", "]", " ">>
    ELSE IF entry_type = TaskDone THEN <<"-", " ", "[", "x", "]", " ">>
    ELSE IF entry_type = Note THEN <<"-", " ">>
    ELSE <<"*", " ">>

\* EntryType::cycle
cycle(entry_type) ==
    IF entry_type \in {TaskOpen, TaskDone} THEN Note
    ELSE IF entry_type = Note THEN Event
    ELSE TaskOpen

\* Entry::toggle_complete
toggle_complete(entry_type) ==
    IF entry_type = TaskOpen THEN TaskDone
    ELSE IF entry_type = TaskDone THEN TaskOpen
    ELSE entry_type

\* Line::Entry(Entry {entry_type, content}) and Line::Raw(text)
EntryLine(entry_type, content) == [kind |-> "Entry", entry_type |-> entry_type, content |-> content]

RawLine(text) == [kind |-> "Raw", entry_type |-> "-", content |-> text]

parse_line(line) ==
    LET trimmed == trim_start(line)
    IN  IF starts_with(trimmed, prefix(TaskOpen))
        THEN EntryLine(TaskOpen, From(trimmed, Len(prefix(TaskOpen))))
        ELSE IF starts_with(trimmed, prefix(TaskDone))
        THEN EntryLine(TaskDone, From(trimmed, Len(prefix(TaskDone))))
        ELSE IF starts_with(trimmed, prefix(Event))
        THEN EntryLine(Event, From(trimmed, Len(prefix(Event))))
        ELSE IF starts_with(trimmed, prefix(Note))
        THEN EntryLine(Note, From(trimmed, Len(prefix(Note))))
        ELSE RawLine(line)

parse_lines(content) ==
    LET ls == lines(content) IN [i \in 1..Len(ls) |-> parse_line(ls[i])]

serialize_line(line) ==
    IF line.kind = "Entry" THEN prefix(line.entry_type) \o line.content ELSE line.content

serialize_lines(ls) == join([i \in 1..Len(ls) |-> serialize_line(ls[i])], <<"\n">>)

(***************************************************************************)
(* Day section engine                                                      *)
(***************************************************************************)
day_header(date) == <<"#", " ">> \o format_ymd(date)

parse_day_header(line) ==
    IF ~starts_with(line, <<"#", " ">>) THEN None
    ELSE LET rest == From(line, 2)
         IN  IF Len(rest) < 10 THEN None ELSE parse_from_str_ymd(Slice(rest, 0, 10))

is_day_header(line) == parse_day_header(line) # None

\* the loop of find_next_day_header over ls = content.lines() from line i on
RECURSIVE NextHeaderFrom(_, _, _, _)
NextHeaderFrom(content, ls, i, byte_pos) ==
    IF i > Len(ls) THEN None
    ELSE IF i > 1 /\ is_day_header(ls[i]) THEN byte_pos
    ELSE LET p1 == byte_pos + Len(ls[i])
             p2 == IF p1 < Len(content) /\ content[p1 + 1] = "\r" THEN p1 + 1 ELSE p1
             p3 == IF p1 < Len(content) /\ p2 < Len(content) /\ content[p2 + 1] = "\n"
                   THEN p2 + 1 ELSE p2
         IN  NextHeaderFrom(content, ls, i + 1, p3)

find_next_day_header(content) == NextHeaderFrom(content, lines(content), 1, 0)

\* after_header.strip_prefix('\n').unwrap_or(after_header)
AfterHeader(doc, start_idx, header) ==
    LET after_header == From(doc, start_idx + Len(header))
    IN  IF starts_with(after_header, <<"\n">>) THEN Tail(after_header) ELSE after_header

extract_day_content(doc, date) ==
    CHOOSE content \in
        {IF start_idx = None THEN <<>>
         ELSE CHOOSE c \in
                 {CHOOSE t \in
                      {IF end_idx # None THEN trim_end(Slice(after_header, 0, end_idx))
                       ELSE trim_end(after_header) :
                          end_idx \in {find_next_day_header(after_header)}} : TRUE :
                     after_header \in {AfterHeader(doc, start_idx, day_header(date))}} : TRUE :
            start_idx \in {find(doc, day_header(date))}} : TRUE

\* split_around_day returns (before, after)
split_around_day(doc, start_idx, header) ==
    CHOOSE s \in
        {CHOOSE r \in
             {[before |-> Slice(doc, 0, start_idx),
               after |-> IF idx # None THEN From(after_header, idx) ELSE <<>>] :
                 idx \in {find_next_day_header(after_header)}} : TRUE :
            after_header \in {AfterHeader(doc, start_idx, header)}} : TRUE

\* remove_day that adds the final "\n" to the untrimmed result
remove_day_Untrimmed(before, after) ==
    LET r1 == trim_end(before)
        r2 == IF r1 # <<>> /\ after # <<>> THEN r1 \o <<"\n", "\n">> ELSE r1
        result == r2 \o trim_start(after)
    IN  IF result = <<>> THEN result ELSE result \o <<"\n">>

remove_day(before, after) ==
    LET r1 == trim_end(before)
        r2 == IF r1 # <<>> /\ after # <<>> THEN r1 \o <<"\n", "\n">> ELSE r1
        result == r2 \o trim_start(after)
    IN  IF result = <<>> THEN result ELSE trim_end(result) \o <<"\n">>

replace_day(before, header, content, after) ==
    trim_end(before \o header \o <<"\n">> \o trim_end(content) \o <<"\n", "\n">> \o after)
        \o <<"\n">>

\* the first line of doc.lines() that is a header of a date after `date`
RECURSIVE FirstLaterHeaderLine(_, _)
FirstLaterHeaderLine(ls, date) ==
    IF ls = <<>> THEN <<>>
    ELSE IF parse_day_header(ls[1]) # None /\ parse_day_header(ls[1]) > date THEN ls[1]
    ELSE FirstLaterHeaderLine(Tail(ls), date)

find_insertion_point(doc, date) ==
    LET line == FirstLaterHeaderLine(lines(doc), date)
    IN  IF line = <<>> THEN None ELSE find(doc, line)

insert_new_day(doc, date, header, content) ==
    LET new_day == header \o <<"\n">> \o trim_end(content) \o <<"\n">>
        insert_pos == find_insertion_point(doc, date)
    IN  IF insert_pos # None
        THEN LET before == trim_end(Slice(doc, 0, insert_pos))
                 after == From(doc, insert_pos)
             IN  IF before = <<>>
                 THEN trim_end(trim_end(new_day) \o <<"\n">> \o trim_start(after)) \o <<"\n">>
                 ELSE trim_end(before \o <<"\n", "\n">> \o trim_end(new_day) \o <<"\n">>
                               \o trim_start(after)) \o <<"\n">>
        ELSE LET r1 == trim_end(doc)
                 r2 == IF r1 # <<>> THEN r1 \o <<"\n", "\n">> ELSE r1
             IN  r2 \o trim_end(new_day) \o <<"\n">>

update_day_content(doc, date, new_content) ==
    CHOOSE updated \in
        {IF start_idx # None
         THEN CHOOSE r \in
                 {IF content_is_empty THEN remove_day(s.before, s.after)
                  ELSE replace_day(s.before, header, new_content, s.after) :
                     s \in {split_around_day(doc, start_idx, header)}} : TRUE
         ELSE IF content_is_empty THEN doc
         ELSE insert_new_day(doc, date, header, new_content) :
            header \in {day_header(date)},
            content_is_empty \in {trim(new_content) = <<>>},
            start_idx \in {find(doc, day_header(date))}} : TRUE

(***************************************************************************)
(* Date resolver                                                           *)
(***************************************************************************)
\* str::parse::<i32>: an optional '-' and a run of digits
parse_i32(s) ==
    IF s # <<>> /\ s[1] = "-" /\ parse_u32(Tail(s)) # None THEN [ok |-> TRUE, v |-> 0 - parse_u32(Tail(s))]
    ELSE IF parse_u32(s) # None THEN [ok |-> TRUE, v |-> parse_u32(s)]
    ELSE [ok |-> FALSE, v |-> 0]

\* date_str.matches('/').count()
CountSlashes(s) == Cardinality({i \in 1..Len(s) : s[i] = "/"})

\* ParseMonthDay that rolls today's own month/day into next year
ParseMonthDay_RollToday(date_str, now) ==
    LET parts == split(date_str, "/")
    IN  IF Len(parts) # 2 THEN None
        ELSE IF parse_u32(parts[1]) = None \/ parse_u32(parts[2]) = None THEN None
        ELSE LET date == from_ymd_opt(year(now), parse_u32(parts[1]), parse_u32(parts[2]))
             IN  IF date = None THEN None
                 ELSE IF date <= now
                 THEN from_ymd_opt(year(now) + 1, parse_u32(parts[1]), parse_u32(parts[2]))
                 ELSE date

\* the "MM/DD (no year)" tail of parse_later_date
ParseMonthDay(date_str, now) ==
    LET parts == split(date_str, "/")
    IN  IF Len(parts) # 2 THEN None
        ELSE IF parse_u32(parts[1]) = None \/ parse_u32(parts[2]) = None THEN None
        ELSE LET date == from_ymd_opt(year(now), parse_u32(parts[1]), parse_u32(parts[2]))
             IN  IF date = None THEN None
                 ELSE IF date < now
                 THEN from_ymd_opt(year(now) + 1, parse_u32(parts[1]), parse_u32(parts[2]))
                 ELSE date

\* the "MM/DD/YYYY or MM/DD/YY" step of parse_later_date
ParseMonthDayYear(date_str) ==
    LET parts == split(date_str, "/")
    IN  IF CountSlashes(date_str) # 2 THEN None
        ELSE IF \/ parse_u32(parts[1]) = None
                \/ parse_u32(parts[2]) = None
                \/ ~parse_i32(parts[3]).ok
        THEN None
        ELSE LET y == parse_i32(parts[3]).v
                 full_year == IF y < 100 THEN 2000 + y ELSE y
             IN  from_ymd_opt(full_year, parse_u32(parts[1]), parse_u32(parts[2]))

\* the "YYYY/MM/DD" step of parse_later_date
ParseIso(date_str) ==
    IF /\ find(date_str, <<"/">>) = 4
       /\ AllDigits(Slice(date_str, 0, 4))
    THEN parse_from_str_ymd(date_str)
    ELSE None

parse_later_date(date_str, now) ==
    IF ParseIso(date_str) # None THEN ParseIso(date_str)
    ELSE IF ParseMonthDayYear(date_str) # None THEN ParseMonthDayYear(date_str)
    ELSE ParseMonthDay(date_str, now)

\* the length of the run of digits s starts with
RECURSIVE DigitRun(_)
DigitRun(s) == IF s # <<>> /\ IsDigit(s[1]) THEN 1 + DigitRun(Tail(s)) ELSE 0

Min(a, b) == IF a <= b THEN a ELSE b

\* LATER_DATE_REGEX without its '@', matched at the start of r: the length
\* of the match of \d{4}/\d{1,2}/\d{1,2}|\d{1,2}/\d{1,2}(?:/\d{2,4})? or None
LaterDateMatchLen(r) ==
    LET n1 == DigitRun(r)
        r2 == From(r, n1 + 1)
        n2 == DigitRun(r2)
        r3 == From(r2, n2 + 1)
        n3 == DigitRun(r3)
    IN  IF n1 = 4 /\ starts_with(From(r, n1), <<"/">>) /\ n2 \in 1..2
           /\ starts_with(From(r2, n2), <<"/">>) /\ n3 >= 1
        THEN n1 + 1 + n2 + 1 + Min(n3, 2)
        ELSE IF n1 \in 1..2 /\ starts_with(From(r, n1), <<"/">>) /\ n2 >= 1
        THEN IF n2 <= 2 /\ starts_with(From(r2, n2), <<"/">>) /\ n3 >= 2
             THEN n1 + 1 + n2 + 1 + Min(n3, 4)
             ELSE n1 + 1 + Min(n2, 2)
        ELSE None

\* LATER_DATE_REGEX.captures(content): the offset of the '@' of the leftmost
\* match, or None
LaterDateFind(content) ==
    LET hits == {i \in 1..Len(content) :
                    content[i] = "@" /\ LaterDateMatchLen(From(content, i)) # None}
    IN  IF hits = {} THEN None ELSE (CHOOSE h \in hits : \A j \in hits : h <= j) - 1

\* capture group 1 of the match at offset at
LaterDateCapture(content, at) ==
    Slice(content, at + 1, at + 1 + LaterDateMatchLen(From(content, at + 1)))

extract_target_date(content, now) ==
    IF LaterDateFind(content) = None THEN None
    ELSE parse_later_date(LaterDateCapture(content, LaterDateFind(content)), now)

(***************************************************************************)
(* Projection engine                                                       *)
(***************************************************************************)
LaterEntry(source_date, line_index, entry) ==
    [source_date |-> source_date,
     line_index |-> line_index,
     content |-> entry.content,
     entry_type |-> entry.entry_type,
     completed |-> entry.entry_type = TaskDone]

\* Vec::sort_by_key(|entry| entry.source_date): a stable sort
RECURSIVE InsertByDate(_, _)
InsertByDate(sorted, e) ==
    IF sorted = <<>> THEN <<e>>
    ELSE IF sorted[Len(sorted)].source_date <= e.source_date THEN Append(sorted, e)
    ELSE Append(InsertByDate(SubSeq(sorted, 1, Len(sorted) - 1), e), sorted[Len(sorted)])

RECURSIVE sort_by_source_date(_)
sort_by_source_date(es) ==
    IF es = <<>> THEN <<>>
    ELSE InsertByDate(sort_by_source_date(SubSeq(es, 1, Len(es) - 1)), es[Len(es)])

\* LaterMatches without the skip of the target day's own section
LaterMatches_OwnDayToo(line, source_date, target_date) ==
    /\ parse_line(line).kind = "Entry"
    /\ extract_target_date(parse_line(line).content, target_date) # None
    /\ extract_target_date(parse_line(line).content, target_date) = target_date

\* whether the scan of collect_later_entries_for_date pushes this line
LaterMatches(line, source_date, target_date) ==
    /\ source_date # target_date
    /\ parse_line(line).kind = "Entry"
    /\ extract_target_date(parse_line(line).content, target_date) # None
    /\ extract_target_date(parse_line(line).content, target_date) = target_date

\* the for loop of collect_later_entries_for_date from line i on
RECURSIVE LaterScan(_, _, _, _, _)
LaterScan(ls, i, current_date, line_index_in_day, target_date) ==
    IF i > Len(ls) THEN <<>>
    ELSE IF parse_day_header(ls[i]) # None
    THEN LaterScan(ls, i + 1, parse_day_header(ls[i]), 0, target_date)
    ELSE IF current_date = None
    THEN LaterScan(ls, i + 1, current_date, line_index_in_day, target_date)
    ELSE (IF LaterMatches(ls[i], current_date, target_date)
          THEN <<LaterEntry(current_date, line_index_in_day, parse_line(ls[i]))>>
          ELSE <<>>)
         \o LaterScan(ls, i + 1, current_date, line_index_in_day + 1, target_date)

collect_later_entries_for_date(doc, target_date) ==
    sort_by_source_date(LaterScan(lines(doc), 1, None, 0, target_date))

\* load_day_lines on the stored document
load_day_lines(doc, date) == parse_lines(extract_day_content(doc, date))

(***************************************************************************)
(* Natural dates                                                           *)
(***************************************************************************)
Uppers == <<"A", "B", "C", "D", "E", "F", "G", "H", "I", "J", "K", "L", "M",
            "N", "O", "P", "Q", "R", "S", "T", "U", "V", "W", "X", "Y", "Z">>

Lowers == <<"a", "b", "c", "d", "e", "f", "g", "h", "i", "j", "k", "l", "m",
            "n", "o", "p", "q", "r", "s", "t", "u", "v", "w", "x", "y", "z">>

IsUpper(c) == \E i \in 1..Len(Uppers) : Uppers[i] = c

IsLower(c) == \E i \in 1..Len(Lowers) : Lowers[i] = c

LowerChar(c) == IF IsUpper(c) THEN Lowers[CHOOSE i \in 1..Len(Uppers) : Uppers[i] = c] ELSE c

to_lowercase(s) == [i \in 1..Len(s) |-> LowerChar(s[i])]

eq_ignore_ascii_case(a, b) == to_lowercase(a) = to_lowercase(b)

contains(s, pat) == find(s, pat) # None

\* days from 0001-01-01 (a Monday) to the first day of year y
DaysBeforeYear(y) == 365 * (y - 1) + ((y - 1) \div 4) - ((y - 1) \div 100) + ((y - 1) \div 400)

RECURSIVE DaysBeforeMonth(_, _)
DaysBeforeMonth(y, m) == IF m = 1 THEN 0 ELSE DaysBeforeMonth(y, m - 1) + DaysInMonth(y, m - 1)

\* date.weekday().num_days_from_monday()
num_days_from_monday(date) ==
    (DaysBeforeYear(year(date)) + DaysBeforeMonth(year(date), month(date)) + day(date) - 1) % 7

NextDay(date) ==
    IF day(date) < DaysInMonth(year(date), month(date)) THEN date + 1
    ELSE IF month(date) < 12 THEN year(date) * 10000 + (month(date) + 1) * 100 + 1
    ELSE (year(date) + 1) * 10000 + 101

PrevDay(date) ==
    IF day(date) > 1 THEN date - 1
    ELSE IF month(date) > 1
    THEN year(date) * 10000 + (month(date) - 1) * 100 + DaysInMonth(year(date), month(date) - 1)
    ELSE (year(date) - 1) * 10000 + 1231

RECURSIVE checked_add_days(_, _)
checked_add_days(date, n) ==
    IF n = 0 THEN date
    ELSE CHOOSE r \in {checked_add_days(next, n - 1) : next \in {NextDay(date)}} : TRUE

RECURSIVE checked_sub_days(_, _)
checked_sub_days(date, n) ==
    IF n = 0 THEN date
    ELSE CHOOSE r \in {checked_sub_days(prev, n - 1) : prev \in {PrevDay(date)}} : TRUE

WeekdayNames ==
    << <<"m", "o", "n", "d", "a", "y">>,
       <<"t", "u", "e", "s", "d", "a", "y">>,
       <<"w", "e", "d", "n", "e", "s", "d", "a", "y">>,
       <<"t", "h", "u", "r", "s", "d", "a", "y">>,
       <<"f", "r", "i", "d", "a", "y">>,
       <<"s", "a", "t", "u", "r", "d", "a", "y">>,
       <<"s", "u", "n", "d", "a", "y">> >>

\* parse_weekday: the weekday's num_days_from_monday, or None
parse_weekday(s) ==
    LET l == to_lowercase(s)
        hits == {i \in 1..Len(WeekdayNames) :
                    l = WeekdayNames[i] \/ l = SubSeq(WeekdayNames[i], 1, 3)}
    IN  IF hits = {} THEN None ELSE (CHOOSE i \in hits : TRUE) - 1

next_weekday_from(now, target_wd) ==
    LET today_wd == num_days_from_monday(now)
        days_ahead == IF target_wd > today_wd THEN target_wd - today_wd
                      ELSE 7 - today_wd + target_wd
    IN  checked_add_days(now, IF days_ahead = 0 THEN 7 ELSE days_ahead)

prev_weekday_from(now, target_wd) ==
    LET today_wd == num_days_from_monday(now)
        days_back == IF target_wd < today_wd THEN today_wd - target_wd
                     ELSE 7 - target_wd + today_wd
    IN  checked_sub_days(now, IF days_back = 0 THEN 7 ELSE days_back)

Tomorrow == <<"t", "o", "m", "o", "r", "r", "o", "w">>

Yesterday == <<"y", "e", "s", "t", "e", "r", "d", "a", "y">>

NextDash == <<"n", "e", "x", "t", "-">>

LastDash == <<"l", "a", "s", "t", "-">>

\* days_str parses as u64 and Days::new of it keeps the date inside NaiveDate:
\* a run of more than 8 digits leaves u64 or the range of NaiveDate
InDayRange(days_str) == days_str # <<>> /\ AllDigits(days_str) /\ Len(days_str) <= 8

\* the "Xd / -Xd" step of parse_natural_date: the date, or None to go on
ParseDayOffset(input_lower, now) ==
    IF input_lower = <<>> \/ input_lower[Len(input_lower)] # "d" THEN None
    ELSE LET days_str == SubSeq(input_lower, 1, Len(input_lower) - 1)
         IN  IF starts_with(days_str, <<"-">>)
             THEN IF InDayRange(Tail(days_str)) /\ parse_u32(Tail(days_str)) > 0
                  THEN checked_sub_days(now, parse_u32(Tail(days_str)))
                  ELSE None
             ELSE IF InDayRange(days_str) /\ parse_u32(days_str) > 0
                  THEN checked_add_days(now, parse_u32(days_str))
                  ELSE None

parse_natural_date(input, now) ==
    LET input_lower == to_lowercase(input)
    IN  IF input_lower = Tomorrow THEN checked_add_days(now, 1)
        ELSE IF input_lower = Yesterday THEN checked_sub_days(now, 1)
        ELSE IF ParseDayOffset(input_lower, now) # None THEN ParseDayOffset(input_lower, now)
        ELSE IF /\ starts_with(input_lower, NextDash)
                /\ parse_weekday(From(input_lower, Len(NextDash))) # None
        THEN next_weekday_from(now, parse_weekday(From(input_lower, Len(NextDash))))
        ELSE IF /\ starts_with(input_lower, LastDash)
                /\ parse_weekday(From(input_lower, Len(LastDash))) # None
        THEN prev_weekday_from(now, parse_weekday(From(input_lower, Len(LastDash))))
        ELSE parse_later_date(input, now)

\* parse_date_prefer_past that sends today's own month/day to last year
parse_date_prefer_past_NotToday(date_str, now) ==
    IF CountSlashes(date_str) = 2 THEN parse_later_date(date_str, now)
    ELSE LET parts == split(date_str, "/")
         IN  IF Len(parts) # 2 THEN None
             ELSE IF parse_u32(parts[1]) = None \/ parse_u32(parts[2]) = None THEN None
             ELSE LET date == from_ymd_opt(year(now), parse_u32(parts[1]), parse_u32(parts[2]))
                  IN  IF date = None THEN None
                      ELSE IF date < now THEN date
                      ELSE from_ymd_opt(year(now) - 1, parse_u32(parts[1]), parse_u32(parts[2]))

parse_date_prefer_past(date_str, now) ==
    IF CountSlashes(date_str) = 2 THEN parse_later_date(date_str, now)
    ELSE LET parts == split(date_str, "/")
         IN  IF Len(parts) # 2 THEN None
             ELSE IF parse_u32(parts[1]) = None \/ parse_u32(parts[2]) = None THEN None
             ELSE LET date == from_ymd_opt(year(now), parse_u32(parts[1]), parse_u32(parts[2]))
                  IN  IF date = None THEN None
                      ELSE IF date <= now THEN date
                      ELSE from_ymd_opt(year(now) - 1, parse_u32(parts[1]), parse_u32(parts[2]))

extract_target_date_prefer_past(content, now) ==
    IF LaterDateFind(content) = None THEN None
    ELSE parse_date_prefer_past(LaterDateCapture(content, LaterDateFind(content)), now)

\* the length of the match of the group of NATURAL_DATE_REGEX at the start
\* of r (what follows an '@'), or 0: the alternatives in the regex's order
NaturalDateMatchLen(r) ==
    LET l == to_lowercase(r)
        wd == IF starts_with(l, NextDash) \/ starts_with(l, LastDash)
              THEN From(l, Len(NextDash)) ELSE <<>>
        abbrs == {i \in 1..Len(WeekdayNames) : starts_with(wd, SubSeq(WeekdayNames[i], 1, 3))}
        sign == IF starts_with(l, <<"-">>) THEN 1 ELSE 0
        run == DigitRun(From(l, sign))
    IN  IF starts_with(l, Tomorrow) THEN Len(Tomorrow)
        ELSE IF starts_with(l, Yesterday) THEN Len(Yesterday)
        ELSE IF abbrs # {}
        THEN LET i == CHOOSE i \in abbrs : TRUE
             IN  Len(NextDash) + (IF starts_with(wd, WeekdayNames[i]) THEN Len(WeekdayNames[i]) ELSE 3)
        ELSE IF /\ run > 0
                /\ l[sign + 1] # "0"
                /\ Len(l) > sign + run
                /\ l[sign + run + 1] = "d"
        THEN sign + run + 1
        ELSE 0

\* NATURAL_DATE_REGEX.captures_iter: the matches from offset from on, each
\* with its offset and the text of group 1
RECURSIVE NaturalDateMatches(_, _)
NaturalDateMatches(content, from) ==
    IF from >= Len(content) THEN <<>>
    ELSE IF content[from + 1] = "@" /\ NaturalDateMatchLen(From(content, from + 1)) > 0
    THEN <<[at |-> from,
            group |-> Slice(content, from + 1,
                            from + 1 + NaturalDateMatchLen(From(content, from + 1)))]>>
         \o NaturalDateMatches(content, from + 1 + NaturalDateMatchLen(From(content, from + 1)))
    ELSE NaturalDateMatches(content, from + 1)

\* str::replacen(pat, to, 1)
replacen_1(s, pat, to) ==
    IF find(s, pat) = None THEN s
    ELSE Slice(s, 0, find(s, pat)) \o to \o From(s, find(s, pat) + Len(pat))

\* format!("@{}/{}", date.format("%m"), date.format("%d"))
NormalizedDate(date) == <<"@">> \o Pad(month(date), 2) \o <<"/">> \o Pad(day(date), 2)

\* the for loop of normalize_natural_dates from capture i on
RECURSIVE NormalizeFrom(_, _, _, _)
NormalizeFrom(result, caps, i, now) ==
    IF i > Len(caps) THEN result
    ELSE IF parse_natural_date(caps[i].group, now) # None
    THEN NormalizeFrom(replacen_1(result, <<"@">> \o caps[i].group,
                                  NormalizedDate(parse_natural_date(caps[i].group, now))),
                       caps, i + 1, now)
    ELSE NormalizeFrom(result, caps, i + 1, now)

\* normalize_natural_dates that writes month and day without the leading zero
normalize_natural_dates_NoPad(content, now) ==
    LET num(n) == IF n >= 10 THEN Pad(n, 2) ELSE Pad(n, 1)
        unpadded(date) == <<"@">> \o num(month(date)) \o <<"/">> \o num(day(date))
        step[i \in 0..Len(NaturalDateMatches(content, 0))] ==
            IF i = 0 THEN content
            ELSE LET cap == NaturalDateMatches(content, 0)[i]
                 IN  IF parse_natural_date(cap.group, now) # None
                     THEN replacen_1(step[i - 1], <<"@">> \o cap.group,
                                     unpadded(parse_natural_date(cap.group, now)))
                     ELSE step[i - 1]
    IN  step[Len(NaturalDateMatches(content, 0))]

normalize_natural_dates(content, now) ==
    NormalizeFrom(content, NaturalDateMatches(content, 0), 1, now)

(***************************************************************************)
(* Shortcuts: saved filters and favorite tags                              *)
(***************************************************************************)
\* \w of the regex crate, on the model's alphabet
IsWordChar(c) == IsUpper(c) \/ IsLower(c) \/ IsDigit(c) \/ c = "_"

\* the length of the longest prefix of s made of word characters
RECURSIVE WordRun(_)
WordRun(s) == IF s # <<>> /\ IsWordChar(s[1]) THEN 1 + WordRun(Tail(s)) ELSE 0

\* SAVED_FILTER_REGEX.captures_iter(query): the texts matched from offset
\* `from` on, in order; \w+ is greedy and the end of a run of word characters
\* is a word boundary
RECURSIVE SavedFilterMatches(_, _)
SavedFilterMatches(query, from) ==
    IF from >= Len(query) THEN <<>>
    ELSE IF query[from + 1] = "$" /\ WordRun(From(query, from + 1)) > 0
    THEN <<Slice(query, from, from + 1 + WordRun(From(query, from + 1)))>>
         \o SavedFilterMatches(query, from + 1 + WordRun(From(query, from + 1)))
    ELSE SavedFilterMatches(query, from + 1)

\* FAVORITE_TAG_REGEX.captures_iter(content): "#", one digit, a word boundary
RECURSIVE FavoriteTagMatches(_, _)
FavoriteTagMatches(content, from) ==
    IF from + 1 >= Len(content) THEN <<>>
    ELSE IF /\ content[from + 1] = "#"
            /\ IsDigit(content[from + 2])
            /\ (from + 2 = Len(content) \/ ~IsWordChar(content[from + 3]))
    THEN <<Slice(content, from, from + 2)>> \o FavoriteTagMatches(content, from + 2)
    ELSE FavoriteTagMatches(content, from + 1)

\* the for loop of expand_favorite_tags from the i-th match on
RECURSIVE ExpandTagsFrom(_, _, _, _)
ExpandTagsFrom(result, ms, i, favorite_tags) ==
    IF i > Len(ms) THEN result
    ELSE IF Tail(ms[i]) \in DOMAIN favorite_tags /\ favorite_tags[Tail(ms[i])] # <<>>
    THEN ExpandTagsFrom(replacen_1(result, ms[i], <<"#">> \o favorite_tags[Tail(ms[i])]),
                        ms, i + 1, favorite_tags)
    ELSE ExpandTagsFrom(result, ms, i + 1, favorite_tags)

expand_favorite_tags(content, favorite_tags) ==
    ExpandTagsFrom(content, FavoriteTagMatches(content, 0), 1, favorite_tags)

\* the for loop of expand_saved_filters from the i-th match on
RECURSIVE ExpandFiltersFrom(_, _, _, _, _)
ExpandFiltersFrom(result, unknown, ms, i, filters) ==
    IF i > Len(ms) THEN [result |-> result, unknown |-> unknown]
    ELSE IF Tail(ms[i]) \in DOMAIN filters
    THEN ExpandFiltersFrom(replacen_1(result, ms[i], filters[Tail(ms[i])]), unknown,
                           ms, i + 1, filters)
    ELSE ExpandFiltersFrom(result, Append(unknown, ms[i]), ms, i + 1, filters)

expand_saved_filters(query, filters) ==
    ExpandFiltersFrom(query, <<>>, SavedFilterMatches(query, 0), 1, filters)

(***************************************************************************)
(* Filter query engine                                                     *)
(***************************************************************************)
\* str::split_whitespace
RECURSIVE split_whitespace(_)
split_whitespace(s) ==
    LET t == trim_start(s)
        ends == {i \in 1..Len(t) : t[i] \in Whitespace}
        n == IF ends = {} THEN Len(t) ELSE (CHOOSE i \in ends : \A j \in ends : i <= j) - 1
    IN  IF t = <<>> THEN <<>> ELSE <<SubSeq(t, 1, n)>> \o split_whitespace(From(t, n))

IsTagChar(c) == IsUpper(c) \/ IsLower(c) \/ IsDigit(c) \/ c \in {"_", "-"}

RECURSIVE TagRun(_)
TagRun(s) == IF s # <<>> /\ IsTagChar(s[1]) THEN 1 + TagRun(Tail(s)) ELSE 0

\* TAG_REGEX.captures_iter(content): group 1 of #([a-zA-Z][a-zA-Z0-9_-]*)
RECURSIVE extract_tags(_)
extract_tags(content) ==
    IF Len(content) < 2 THEN <<>>
    ELSE IF content[1] = "#" /\ (IsUpper(content[2]) \/ IsLower(content[2]))
    THEN LET n == TagRun(Tail(content))
         IN  <<Slice(content, 1, 1 + n)>> \o extract_tags(From(content, 1 + n))
    ELSE extract_tags(Tail(content))

FilterTask == "FilterType::Task"

FilterNote == "FilterType::Note"

FilterEvent == "FilterType::Event"

NoType == "None"

\* Option<bool>
SomeTrue == "Some(true)"

SomeFalse == "Some(false)"

NoBool == "None"

parse_type_keyword(s) ==
    IF s \in {<<"t", "a", "s", "k", "s">>, <<"t", "a", "s", "k">>, <<"t">>} THEN FilterTask
    ELSE IF s \in {<<"n", "o", "t", "e", "s">>, <<"n", "o", "t", "e">>, <<"n">>} THEN FilterNote
    ELSE IF s \in {<<"e", "v", "e", "n", "t", "s">>, <<"e", "v", "e", "n", "t">>, <<"e">>}
    THEN FilterEvent
    ELSE NoType

\* Filter::default()
DefaultFilter ==
    [entry_type |-> NoType, completed |-> NoBool, tags |-> <<>>, exclude_tags |-> <<>>,
     search_terms |-> <<>>, exclude_terms |-> <<>>, exclude_types |-> <<>>,
     before_date |-> None, after_date |-> None, overdue |-> FALSE, invalid_tokens |-> <<>>]

BeforePrefix == <<"@", "b", "e", "f", "o", "r", "e", ":">>

AfterPrefix == <<"@", "a", "f", "t", "e", "r", ":">>

OverdueToken == <<"@", "o", "v", "e", "r", "d", "u", "e">>

NotPrefix == <<"n", "o", "t", ":">>

MultipleBefore == <<"Multiple @before dates">>

MultipleAfter == <<"Multiple @after dates">>

MultipleTypes == <<"Multiple entry types">>

Push(f, field, v) == [f EXCEPT ![field] = Append(@, v)]

\* the "!type" branch that takes the modifier "done" only for a completed task
TypeToken_DoneOnly(filter, token) ==
    LET type_str == Tail(token)
        idx == find(type_str, <<"/">>)
        base_type == IF idx # None THEN Slice(type_str, 0, idx) ELSE type_str
        has_modifier == idx # None
        modifier == IF idx # None THEN From(type_str, idx + 1) ELSE <<>>
        new_type == parse_type_keyword(base_type)
    IN  IF new_type = NoType THEN Push(filter, "invalid_tokens", token)
        ELSE IF filter.entry_type # NoType /\ filter.entry_type # new_type
        THEN Push(filter, "invalid_tokens", MultipleTypes)
        ELSE IF new_type = FilterTask
        THEN [filter EXCEPT
                !.entry_type = new_type,
                !.completed =
                    IF has_modifier /\ modifier = <<"d", "o", "n", "e">> THEN SomeTrue
                    ELSE IF has_modifier /\ modifier = <<"a", "l", "l">> THEN NoBool
                    ELSE SomeFalse]
        ELSE [filter EXCEPT !.entry_type = new_type]

\* the "!type" branch of the loop body of parse_filter_query
TypeToken(filter, token) ==
    LET type_str == Tail(token)
        idx == find(type_str, <<"/">>)
        base_type == IF idx # None THEN Slice(type_str, 0, idx) ELSE type_str
        has_modifier == idx # None
        modifier == IF idx # None THEN From(type_str, idx + 1) ELSE <<>>
        new_type == parse_type_keyword(base_type)
    IN  IF new_type = NoType THEN Push(filter, "invalid_tokens", token)
        ELSE IF filter.entry_type # NoType /\ filter.entry_type # new_type
        THEN Push(filter, "invalid_tokens", MultipleTypes)
        ELSE IF new_type = FilterTask
        THEN [filter EXCEPT
                !.entry_type = new_type,
                !.completed =
                    IF has_modifier /\ modifier \in {<<"d", "o", "n", "e">>,
                                                     <<"c", "o", "m", "p", "l", "e", "t", "e", "d">>}
                    THEN SomeTrue
                    ELSE IF has_modifier /\ modifier = <<"a", "l", "l">> THEN NoBool
                    ELSE SomeFalse]
        ELSE [filter EXCEPT !.entry_type = new_type]

\* the "not:" branch of the loop body of parse_filter_query
NotToken(filter, token) ==
    LET negated == From(token, Len(NotPrefix))
    IN  IF starts_with(negated, <<"#">>) THEN Push(filter, "exclude_tags", Tail(negated))
        ELSE IF starts_with(negated, <<"!">>)
        THEN IF parse_type_keyword(Tail(negated)) # NoType
             THEN Push(filter, "exclude_types", parse_type_keyword(Tail(negated)))
             ELSE Push(filter, "invalid_tokens", token)
        ELSE IF negated # <<>> THEN Push(filter, "exclude_terms", negated)
        ELSE filter

\* one turn of the loop that lets a later @before: or @after: token set the
\* date again
FilterToken_Overwrite(filter, token, now) ==
    IF starts_with(token, BeforePrefix)
    THEN IF parse_natural_date(From(token, Len(BeforePrefix)), now) # None
         THEN [filter EXCEPT !.before_date = parse_natural_date(From(token, Len(BeforePrefix)), now)]
         ELSE Push(filter, "invalid_tokens", token)
    ELSE IF starts_with(token, AfterPrefix)
    THEN IF parse_natural_date(From(token, Len(AfterPrefix)), now) # None
         THEN [filter EXCEPT !.after_date = parse_natural_date(From(token, Len(AfterPrefix)), now)]
         ELSE Push(filter, "invalid_tokens", token)
    ELSE IF token = OverdueToken THEN [filter EXCEPT !.overdue = TRUE]
    ELSE IF starts_with(token, <<"@">>) /\ contains(token, <<":">>)
    THEN Push(filter, "invalid_tokens", token)
    ELSE IF starts_with(token, NotPrefix) THEN NotToken(filter, token)
    ELSE IF starts_with(token, <<"!">>) THEN TypeToken(filter, token)
    ELSE IF starts_with(token, <<"#">>) THEN Push(filter, "tags", Tail(token))
    ELSE IF token # <<>> THEN Push(filter, "search_terms", token)
    ELSE filter

\* one turn of the loop of parse_filter_query
FilterToken(filter, token, now) ==
    IF starts_with(token, BeforePrefix)
    THEN IF filter.before_date # None THEN Push(filter, "invalid_tokens", MultipleBefore)
         ELSE IF parse_natural_date(From(token, Len(BeforePrefix)), now) # None
         THEN [filter EXCEPT !.before_date = parse_natural_date(From(token, Len(BeforePrefix)), now)]
         ELSE Push(filter, "invalid_tokens", token)
    ELSE IF starts_with(token, AfterPrefix)
    THEN IF filter.after_date # None THEN Push(filter, "invalid_tokens", MultipleAfter)
         ELSE IF parse_natural_date(From(token, Len(AfterPrefix)), now) # None
         THEN [filter EXCEPT !.after_date = parse_natural_date(From(token, Len(AfterPrefix)), now)]
         ELSE Push(filter, "invalid_tokens", token)
    ELSE IF token = OverdueToken THEN [filter EXCEPT !.overdue = TRUE]
    ELSE IF starts_with(token, <<"@">>) /\ contains(token, <<":">>)
    THEN Push(filter, "invalid_tokens", token)
    ELSE IF starts_with(token, NotPrefix) THEN NotToken(filter, token)
    ELSE IF starts_with(token, <<"!">>) THEN TypeToken(filter, token)
    ELSE IF starts_with(token, <<"#">>) THEN Push(filter, "tags", Tail(token))
    ELSE IF token # <<>> THEN Push(filter, "search_terms", token)
    ELSE filter

RECURSIVE FilterTokens(_, _, _)
FilterTokens(filter, tokens, now) ==
    IF tokens = <<>> THEN filter
    ELSE FilterTokens(FilterToken(filter, tokens[1], now), Tail(tokens), now)

parse_filter_query(query, now) == FilterTokens(DefaultFilter, split_whitespace(query), now)

entry_type_to_filter_type(entry_type) ==
    IF entry_type \in {TaskOpen, TaskDone} THEN FilterTask
    ELSE IF entry_type = Note THEN FilterNote
    ELSE FilterEvent

\* entry_matches_filter that looks for "#tag" as a substring of the content
entry_matches_filter_TagSubstring(entry, filter) ==
    LET entry_filter_type == entry_type_to_filter_type(entry.entry_type)
        content_lower == to_lowercase(entry.content)
    IN  /\ filter.entry_type # NoType => entry_filter_type = filter.entry_type
        /\ \A i \in 1..Len(filter.exclude_types) : filter.exclude_types[i] # entry_filter_type
        /\ (filter.completed # NoBool /\ entry.entry_type \in {TaskOpen, TaskDone})
              => (entry.entry_type = TaskDone) = (filter.completed = SomeTrue)
        /\ \A i \in 1..Len(filter.tags) :
              contains(content_lower, <<"#">> \o to_lowercase(filter.tags[i]))
        /\ \A i \in 1..Len(filter.exclude_tags) :
              ~contains(content_lower, <<"#">> \o to_lowercase(filter.exclude_tags[i]))
        /\ \A i \in 1..Len(filter.search_terms) :
              contains(content_lower, to_lowercase(filter.search_terms[i]))
        /\ \A i \in 1..Len(filter.exclude_terms) :
              ~contains(content_lower, to_lowercase(filter.exclude_terms[i]))

entry_matches_filter(entry, filter) ==
    LET entry_filter_type == entry_type_to_filter_type(entry.entry_type)
        entry_tags == extract_tags(entry.content)
        content_lower == to_lowercase(entry.content)
    IN  /\ filter.entry_type # NoType => entry_filter_type = filter.entry_type
        /\ \A i \in 1..Len(filter.exclude_types) : filter.exclude_types[i] # entry_filter_type
        /\ (filter.completed # NoBool /\ entry.entry_type \in {TaskOpen, TaskDone})
              => (entry.entry_type = TaskDone) = (filter.completed = SomeTrue)
        /\ \A i \in 1..Len(filter.tags) :
              \E j \in 1..Len(entry_tags) : eq_ignore_ascii_case(entry_tags[j], filter.tags[i])
        /\ \A i \in 1..Len(filter.exclude_tags) :
              ~\E j \in 1..Len(entry_tags) :
                  eq_ignore_ascii_case(entry_tags[j], filter.exclude_tags[i])
        /\ \A i \in 1..Len(filter.search_terms) :
              contains(content_lower, to_lowercase(filter.search_terms[i]))
        /\ \A i \in 1..Len(filter.exclude_terms) :
              ~contains(content_lower, to_lowercase(filter.exclude_terms[i]))

\* whether the scan of collect_filtered_entries pushes this line
FilterMatches(line, source_date, filter, now) ==
    /\ ~(filter.before_date # None /\ source_date > filter.before_date)
    /\ ~(filter.after_date # None /\ source_date < filter.after_date)
    /\ parse_line(line).kind = "Entry"
    /\ filter.overdue =>
          /\ extract_target_date_prefer_past(parse_line(line).content, now) # None
          /\ extract_target_date_prefer_past(parse_line(line).content, now) < now
    /\ entry_matches_filter(parse_line(line), filter)

\* the for loop of collect_filtered_entries from line i on
RECURSIVE FilterScan(_, _, _, _, _, _)
FilterScan(ls, i, current_date, line_index_in_day, filter, now) ==
    IF i > Len(ls) THEN <<>>
    ELSE IF parse_day_header(ls[i]) # None
    THEN FilterScan(ls, i + 1, parse_day_header(ls[i]), 0, filter, now)
    ELSE IF current_date = None
    THEN FilterScan(ls, i + 1, current_date, line_index_in_day, filter, now)
    ELSE (IF FilterMatches(ls[i], current_date, filter, now)
          THEN <<LaterEntry(current_date, line_index_in_day, parse_line(ls[i]))>>
          ELSE <<>>)
         \o FilterScan(ls, i + 1, current_date, line_index_in_day + 1, filter, now)

\* collect_filtered_entries without the check of invalid_tokens
collect_filtered_entries_Unchecked(filter, doc, now) ==
    [entries |-> sort_by_source_date(FilterScan(lines(doc), 1, None, 0, filter, now)),
     loads |-> 1]

\* collect_filtered_entries: the entries returned, and how often it called
\* load_journal
collect_filtered_entries(filter, doc, now) ==
    IF filter.invalid_tokens # <<>> THEN [entries |-> <<>>, loads |-> 0]
    ELSE [entries |-> sort_by_source_date(FilterScan(lines(doc), 1, None, 0, filter, now)),
          loads |-> 1]

(***************************************************************************)
(* The journal file and the storage calls                                  *)
(***************************************************************************)
\* the most lines of the journal file a run starts on
MaxLines == 3

\* the most save_day calls of a run that starts on the empty journal
MaxCalls == 2

\* the dates the calls are made for
Dates == <<20260105, 20260110, 20260120>>

DateSet == {Dates[i] : i \in 1..Len(Dates)}

\* the lines a journal file is made of: two day headers, a blank line, a task
\* deferred to Dates[3] with a trailing blank, an indented event, a note that
\* quotes the header of Dates[3], and a note with two date markers
LinePool ==
    {day_header(Dates[1]),
     day_header(Dates[3]),
     <<>>,
     <<"-", " ", "[", " ", "]", " ", "a", " ", "@", "0", "1", "/", "2", "0", " ">>,
     <<" ", "*", " ", "b">>,
     <<"-", " ">> \o day_header(Dates[3]),
     <<"-", " ", "c", " ", "@", "0", "1", "/", "0", "5", " ", "@", "1", "/", "2", "0", "/", "2", "6">>}

RECURSIVE FilesOfLen(_)
FilesOfLen(n) ==
    IF n = 0 THEN {<<>>}
    ELSE {l \o <<"\n">> \o f : l \in LinePool, f \in FilesOfLen(n - 1)}

\* the journal files a run may start on: the user edits the file by hand
Files == UNION {FilesOfLen(n) : n \in 0..MaxLines}

\* the contents save_day is called with: empty, blank, a note, a deferred
\* task with trailing blanks, a note that quotes the header of Dates[3], and
\* an indented event, a blank line and a note
Contents ==
    {<<>>,
     <<" ", "\n">>,
     <<"-", " ", "a">>,
     <<"-", " ", "[", "x", "]", " ", "a", " ", "@", "0", "1", "/", "2", "0", " ", "\n">>,
     <<"-", " ">> \o day_header(Dates[3]),
     <<" ", "*", " ", "b", "\n", "\n", "-", " ", "a">>}

\* the filter queries: none, a type, a tag and a term, an unknown type, two
\* types, two @before dates, an unknown @command, the overdue flag
Queries ==
    {<<>>,
     <<"!", "t", "/", "a", "l", "l">>,
     <<"n", "o", "t", ":", "#", "x", " ", "a">>,
     <<"!", "t", "a", "s">>,
     <<"!", "t", " ", "!", "n">>,
     BeforePrefix \o <<"1", "/", "1", " ">> \o BeforePrefix \o <<"1", "/", "1", "5">>,
     <<"@", "x", ":", "y">>,
     OverdueToken}

\* what the last call was, what it was given and what it returned
Call(op, date, text, before, ret, loads) ==
    [op |-> op, date |-> date, text |-> text, before |-> before, ret |-> ret, loads |-> loads]

NoCall == Call("start", None, <<>>, <<>>, <<>>, 0)

\* the App of a run that calls the storage only: nothing loaded, no filter view
NoApp == [current_date |-> None, lines |-> <<>>, view |-> "Daily", entries |-> <<>>]

\* save_day(date, content): load_journal, update_day_content, save_journal
SaveDay(date, content) ==
    /\ left > 0
    /\ journal' = update_day_content(journal, date, content)
    /\ left' = left - 1
    /\ last' = Call("save_day", date, content, journal, <<>>, 1)
    /\ UNCHANGED <<today, app, context, disk>>

\* load_day(date)
LoadDay(date) ==
    /\ left > 0
    /\ last' = Call("load_day", date, <<>>, journal, extract_day_content(journal, date), 1)
    /\ left' = left - 1
    /\ UNCHANGED <<journal, today, app, context, disk>>

\* load_day_lines(date); text is what load_day gave it to parse
LoadDayLines(date) ==
    /\ left > 0
    /\ last' = Call("load_day_lines", date, extract_day_content(journal, date), journal,
                    load_day_lines(journal, date), 1)
    /\ left' = left - 1
    /\ UNCHANGED <<journal, today, app, context, disk>>

\* collect_later_entries_for_date(target_date)
CollectLater(target_date) ==
    /\ left > 0
    /\ last' = Call("collect_later", target_date, <<>>, journal,
                    collect_later_entries_for_date(journal, target_date), 1)
    /\ left' = left - 1
    /\ UNCHANGED <<journal, today, app, context, disk>>

\* collect_filtered_entries(&parse_filter_query(query))
CollectFiltered(query) ==
    LET r == collect_filtered_entries(parse_filter_query(query, today), journal, today)
    IN  /\ left > 0
        /\ last' = Call("collect_filtered", None, query, journal, r.entries, r.loads)
        /\ left' = left - 1
        /\ UNCHANGED <<journal, today, app, context, disk>>

\* a run of Spec: one storage call on the journal file found on disk
Init ==
    /\ journal \in Files
    /\ today = 20260105
    /\ left = 1
    /\ last = NoCall
    /\ app = NoApp
    /\ context = NoContext
    /\ disk = NoDisk

Next ==
    \/ \E date \in DateSet, content \in Contents : SaveDay(date, content)
    \/ \E date \in DateSet : LoadDay(date)
    \/ \E date \in DateSet : LoadDayLines(date)
    \/ \E date \in DateSet : CollectLater(date)
    \/ \E query \in Queries : CollectFiltered(query)

Spec == Init /\ [][Next]_vars

\* a run of SpecEngine: save_day calls on a journal that starts empty
InitEngine ==
    /\ journal = <<>>
    /\ today = 20260105
    /\ left = MaxCalls
    /\ last = NoCall
    /\ app = NoApp
    /\ context = NoContext
    /\ disk = NoDisk

NextEngine == \E date \in DateSet, content \in Contents : SaveDay(date, content)

SpecEngine == InitEngine /\ [][NextEngine]_vars

(***************************************************************************)
(* What the claims speak of                                                *)
(***************************************************************************)
\* the lines of doc that are the header of date
HeaderLinesOf(doc, date) == {k \in 1..Len(lines(doc)) : parse_day_header(lines(doc)[k]) = date}

\* doc has a section for date: one of its lines is date's header
HasSection(doc, date) == HeaderLinesOf(doc, date) # {}

\* the lines of doc that are day headers
HeaderLines(doc) == {k \in 1..Len(lines(doc)) : is_day_header(lines(doc)[k])}

\* the text between the first header line of date and the next header line,
\* bare of trailing white space: what a section holds, read line by line
SectionText(doc, date) ==
    IF ~HasSection(doc, date) THEN <<>>
    ELSE LET ls == lines(doc)
             h == CHOOSE k \in HeaderLinesOf(doc, date) : \A j \in HeaderLinesOf(doc, date) : k <= j
             later == {k \in HeaderLines(doc) : k > h}
             end == IF later = {} THEN Len(ls) + 1
                    ELSE CHOOSE k \in later : \A j \in later : k <= j
         IN  trim_end(join(SubSeq(ls, h + 1, end - 1), <<"\n">>))

SavedBlank == last.op = "save_day" /\ trim(last.text) = <<>>

SavedText == last.op = "save_day" /\ trim(last.text) # <<>>

\* C1: day isolation. update_day_content(doc, D, c) keeps the header and the
\* extracted content of every other date that has a section in doc.
C1_DayIsolation ==
    last.op = "save_day" =>
        \A d2 \in DateSet \ {last.date} :
            HasSection(last.before, d2) =>
                /\ HasSection(journal, d2)
                /\ extract_day_content(journal, d2) = extract_day_content(last.before, d2)

\* C7: extract_day_content(doc, D) is "" when doc has no header line for D,
\* and else the text between D's header line and the next header line, bare
\* of trailing white space, for sections of zero or more lines.
C7_ExtractIsSection ==
    last.op = "load_day" => last.ret = SectionText(last.before, last.date)

\* C2: round trip. What load_day_lines parsed serializes back to the text it
\* was given, byte for byte (every line of a text is an entry line, a raw
\* line or a blank line).
C2_RoundTrip ==
    last.op = "load_day_lines" => serialize_lines(last.ret) = last.text

\* every header line of doc is exactly the header of its date, and no two
\* header lines have the same date
ExactDistinctHeaders(doc) ==
    /\ \A k \in HeaderLines(doc) : lines(doc)[k] = day_header(parse_day_header(lines(doc)[k]))
    /\ \A k, j \in HeaderLines(doc) :
          parse_day_header(lines(doc)[k]) = parse_day_header(lines(doc)[j]) => k = j

\* the line (source_date, line_index) addresses is an Entry line with the
\* content and the type of e
Addresses(doc, e) ==
    LET ls == load_day_lines(doc, e.source_date)
    IN  /\ e.line_index < Len(ls)
        /\ ls[e.line_index + 1] = EntryLine(e.entry_type, e.content)

\* C3: back-reference addressing. In a document with exact-form headers of
\* pairwise distinct dates, every entry a projection or a filter returns is
\* the Entry line load_day_lines(source_date)[line_index].
C3_BackReference ==
    (last.op \in {"collect_later", "collect_filtered"} /\ ExactDistinctHeaders(last.before)) =>
        \A i \in 1..Len(last.ret) : Addresses(last.before, last.ret[i])

\* the dates of the header lines of doc, in the order of the lines
RECURSIVE DatesOfLines(_)
DatesOfLines(ls) ==
    IF ls = <<>> THEN <<>>
    ELSE (IF is_day_header(ls[1]) THEN <<parse_day_header(ls[1])>> ELSE <<>>)
         \o DatesOfLines(Tail(ls))

HeaderDates(doc) == DatesOfLines(lines(doc))

StrictlyIncreasing(ds) == \A i \in 1..(Len(ds) - 1) : ds[i] < ds[i + 1]

\* ds with date put before its first element greater than date, or last
InsertBeforeFirstGreater(ds, date) ==
    LET greater == {i \in 1..Len(ds) : ds[i] > date}
        at == IF greater = {} THEN Len(ds) + 1
              ELSE CHOOSE i \in greater : \A j \in greater : i <= j
    IN  SubSeq(ds, 1, at - 1) \o <<date>> \o SubSeq(ds, at, Len(ds))

\* C4: sorted insertion. From the empty document on, the day headers are in
\* strictly increasing date order, and a day saved with content where it had
\* no section gets its header before the first header of a later date, or
\* last.
C4_SortedInsertion ==
    /\ StrictlyIncreasing(HeaderDates(journal))
    /\ (SavedText /\ ~HasSection(last.before, last.date)) =>
          HeaderDates(journal) = InsertBeforeFirstGreater(HeaderDates(last.before), last.date)

\* every two adjacent day blocks of doc are separated by exactly one blank
\* line: the line before a later header is empty, and the line before that
\* is not
Separated(doc) ==
    LET ls == lines(doc)
    IN  \A k \in HeaderLines(doc) :
            (\E h \in HeaderLines(doc) : h < k) =>
                /\ ls[k - 1] = <<>>
                /\ ls[k - 2] # <<>>

\* C5: blank-line separation. A document update_day_content makes from a
\* document that keeps the convention keeps it: one blank line between two
\* adjacent day blocks, also before a day that a new day is put in front of.
C5_BlankLineSeparation ==
    (last.op = "save_day" /\ Separated(last.before)) => Separated(journal)

\* C6: empty-content removal. With blank content, a document with no header
\* for D comes back unchanged; one with a header for D comes back with no
\* header for D, nothing to extract for D, its blocks separated by one blank
\* line, no blank at its start where D was first, and one newline at its end.
C6_EmptyContentRemoval ==
    SavedBlank =>
        /\ ~HasSection(last.before, last.date) => journal = last.before
        /\ HasSection(last.before, last.date) =>
              /\ ~HasSection(journal, last.date)
              /\ extract_day_content(journal, last.date) = <<>>
              /\ Separated(last.before) => Separated(journal)
              /\ (1 \in HeaderLinesOf(last.before, last.date) /\ journal # <<>>) =>
                    journal[1] \notin Whitespace
              /\ journal # <<>> => journal = trim_end(journal) \o <<"\n">>

\* C8: filter fail-closed. A query with an invalid token gives no entry,
\* whatever the journal holds, and the journal is not loaded for it.
C8_FilterFailClosed ==
    (last.op = "collect_filtered" /\ parse_filter_query(last.text, today).invalid_tokens # <<>>) =>
        /\ last.ret = <<>>
        /\ last.loads = 0

\* an invalid query was run on a journal whose entries the rest of the query
\* matches
C8_Witness ==
    /\ last.op = "collect_filtered"
    /\ parse_filter_query(last.text, today).invalid_tokens # <<>>
    /\ FilterScan(lines(journal), 1, None, 0, parse_filter_query(last.text, today), today) # <<>>

\* the header line that opens the section line k of ls lies in, or 0
SectionHeaderOf(ls, k) ==
    LET hs == {h \in 1..k : is_day_header(ls[h])}
    IN  IF hs = {} THEN 0 ELSE CHOOSE h \in hs : \A j \in hs : j <= h

\* every match of LATER_DATE_REGEX in content, left to right
RECURSIVE AllMarkers(_)
AllMarkers(content) ==
    LET at == LaterDateFind(content)
    IN  IF at = None THEN <<>>
        ELSE <<LaterDateCapture(content, at)>>
             \o AllMarkers(From(content, at + 1 + Len(LaterDateCapture(content, at))))

SomeMarkerResolvesTo(content, target) ==
    \E i \in 1..Len(AllMarkers(content)) : parse_later_date(AllMarkers(content)[i], target) = target

\* the entry lines of doc in a section of another date than target
EntryLinesElsewhere(doc, target) ==
    {k \in 1..Len(lines(doc)) :
        /\ SectionHeaderOf(lines(doc), k) # 0
        /\ ~is_day_header(lines(doc)[k])
        /\ parse_day_header(lines(doc)[SectionHeaderOf(lines(doc), k)]) # target
        /\ parse_line(lines(doc)[k]).kind = "Entry"}

\* line k of doc as the entry a projection returns for it
EntryAt(doc, k) ==
    LaterEntry(parse_day_header(lines(doc)[SectionHeaderOf(lines(doc), k)]),
               k - SectionHeaderOf(lines(doc), k) - 1,
               parse_line(lines(doc)[k]))

Returned == {last.ret[i] : i \in 1..Len(last.ret)}

\* C9: later projection. collect_later_entries_for_date(T) returns exactly the entry
\* lines of sections of other dates with at least one marker that resolves,
\* anchored at T, to T.
C9_AnyMarkerProjects ==
    last.op = "collect_later" =>
        Returned = {EntryAt(last.before, k) :
                       k \in {j \in EntryLinesElsewhere(last.before, last.date) :
                                 SomeMarkerResolvesTo(parse_line(lines(last.before)[j]).content,
                                                      last.date)}}

\* C10: later-entry exclusion. No entry collect_later_entries_for_date(T)
\* returns has source_date T.
C10_LaterEntryExclusion ==
    last.op = "collect_later" =>
        \A i \in 1..Len(last.ret) : last.ret[i].source_date # last.date

\* the target's own section holds an entry whose marker resolves to the
\* target
C10_Witness ==
    /\ last.op = "collect_later"
    /\ \E k \in 1..Len(lines(journal)) :
          /\ SectionHeaderOf(lines(journal), k) # 0
          /\ parse_day_header(lines(journal)[SectionHeaderOf(lines(journal), k)]) = last.date
          /\ parse_line(lines(journal)[k]).kind = "Entry"
          /\ SomeMarkerResolvesTo(parse_line(lines(journal)[k]).content, last.date)
          /\ extract_target_date(parse_line(lines(journal)[k]).content, last.date) = last.date

(***************************************************************************)
(* Mutation primitives of the storage                                      *)
(***************************************************************************)
\* save_day_lines on the stored document
save_day_lines(doc, date, ls) ==
    CHOOSE updated \in
        {update_day_content(journal_, date, content) :
            journal_ \in {doc}, content \in {serialize_lines(ls)}} : TRUE

\* lines.get_mut(line_index) is Some(Line::Entry(_))
IsEntryAt(ls, line_index) ==
    /\ line_index < Len(ls)
    /\ ls[line_index + 1].kind = "Entry"

\* the document update_entry_content leaves and what it returns
update_entry_content(doc, date, line_index, content) ==
    CHOOSE r \in
        {IF IsEntryAt(ls, line_index)
         THEN [journal |-> save_day_lines(doc, date, [ls EXCEPT ![line_index + 1].content = content]),
               ret |-> "Ok(true)"]
         ELSE [journal |-> doc, ret |-> "Ok(false)"] : ls \in {load_day_lines(doc, date)}} : TRUE

\* the document toggle_entry_complete leaves and what it returns
toggle_entry_complete(doc, date, line_index) ==
    CHOOSE r \in
        {[journal |-> save_day_lines(doc, date,
                          IF IsEntryAt(ls, line_index)
                          THEN [ls EXCEPT ![line_index + 1].entry_type = toggle_complete(@)]
                          ELSE ls),
          ret |-> "Ok(())"] : ls \in {load_day_lines(doc, date)}} : TRUE

\* the document cycle_entry_type leaves and what it returns
cycle_entry_type(doc, date, line_index) ==
    CHOOSE r \in
        {IF IsEntryAt(ls, line_index)
         THEN [journal |-> save_day_lines(doc, date,
                               [ls EXCEPT ![line_index + 1].entry_type = cycle(@)]),
               ret |-> cycle(ls[line_index + 1].entry_type)]
         ELSE [journal |-> save_day_lines(doc, date, ls), ret |-> "Ok(None)"] :
            ls \in {load_day_lines(doc, date)}} : TRUE

\* Vec::remove
Remove(ls, line_index) ==
    [i \in 1..(Len(ls) - 1) |-> IF i <= line_index THEN ls[i] ELSE ls[i + 1]]

\* the document delete_entry leaves and what it returns
delete_entry(doc, date, line_index) ==
    CHOOSE r \in
        {[journal |-> save_day_lines(doc, date,
                          IF line_index < Len(ls) THEN Remove(ls, line_index) ELSE ls),
          ret |-> "Ok(())"] : ls \in {load_day_lines(doc, date)}} : TRUE

\* the contents update_entry_content is called with
NewContents == {<<"z">>, <<"a", " ", "#", "t">>}

\* a call that addresses one line of a day
LineCall(op, date, line_index, text, before, ret) ==
    [op |-> op, date |-> date, line_index |-> line_index, text |-> text,
     before |-> before, ret |-> ret, loads |-> 1]

UpdateEntryContent(date, line_index, content) ==
    /\ left > 0
    /\ \E r \in {update_entry_content(journal, date, line_index, content)} :
          /\ journal' = r.journal
          /\ last' = LineCall("update_entry_content", date, line_index, content, journal, r.ret)
    /\ left' = left - 1
    /\ UNCHANGED <<today, app, context, disk>>

ToggleEntryComplete(date, line_index) ==
    /\ left > 0
    /\ \E r \in {toggle_entry_complete(journal, date, line_index)} :
          /\ journal' = r.journal
          /\ last' = LineCall("toggle_entry_complete", date, line_index, <<>>, journal, r.ret)
    /\ left' = left - 1
    /\ UNCHANGED <<today, app, context, disk>>

CycleEntryType(date, line_index) ==
    /\ left > 0
    /\ \E r \in {cycle_entry_type(journal, date, line_index)} :
          /\ journal' = r.journal
          /\ last' = LineCall("cycle_entry_type", date, line_index, <<>>, journal, r.ret)
    /\ left' = left - 1
    /\ UNCHANGED <<today, app, context, disk>>

DeleteEntry(date, line_index) ==
    /\ left > 0
    /\ \E r \in {delete_entry(journal, date, line_index)} :
          /\ journal' = r.journal
          /\ last' = LineCall("delete_entry", date, line_index, <<>>, journal, r.ret)
    /\ left' = left - 1
    /\ UNCHANGED <<today, app, context, disk>>

\* a run of SpecMutations: save_day calls and line mutations on a journal
\* that starts empty, so that every document is one the engine produced
NextMutations ==
    \/ \E date \in DateSet, content \in Contents : SaveDay(date, content)
    \/ \E date \in DateSet, i \in 0..MaxLines, content \in NewContents :
          UpdateEntryContent(date, i, content)
    \/ \E date \in DateSet, i \in 0..MaxLines : ToggleEntryComplete(date, i)
    \/ \E date \in DateSet, i \in 0..MaxLines : CycleEntryType(date, i)
    \/ \E date \in DateSet, i \in 0..MaxLines : DeleteEntry(date, i)

SpecMutations == InitEngine /\ [][NextMutations]_vars

\* the last call addressed no Entry line of its day
BadIndex == ~IsEntryAt(load_day_lines(last.before, last.date), last.line_index)

\* C13: silent no-op on bad index. update_entry_content, toggle_entry_complete
\* and cycle_entry_type with an index out of range or on a Raw line report no
\* change and leave an engine-produced journal byte-for-byte unchanged.
C13_SilentNoOp ==
    (last.op \in {"update_entry_content", "toggle_entry_complete", "cycle_entry_type"} /\ BadIndex) =>
        /\ last.ret \in {"Ok(false)", "Ok(())", "Ok(None)"}
        /\ journal = last.before

\* C14: unconditional delete. delete_entry(D, i) with i in bounds removes
\* exactly line i, Entry or Raw, and load_day_lines(D) is then the previous
\* list without that element; with i out of bounds D's lines are unchanged.
C14_UnconditionalDelete ==
    last.op = "delete_entry" =>
        load_day_lines(journal, last.date) =
            IF last.line_index < Len(load_day_lines(last.before, last.date))
            THEN Remove(load_day_lines(last.before, last.date), last.line_index)
            ELSE load_day_lines(last.before, last.date)

(***************************************************************************)
(* Content operations addressed by an EntryLocation                        *)
(***************************************************************************)
\* EntryLocation::Daily {line_idx}, EntryLocation::Projected(entry) and
\* EntryLocation::Filter {index, entry}; of entry, its source_date and
\* line_index
EntryLocation_Daily(line_idx) ==
    [variant |-> "Daily", line_idx |-> line_idx, index |-> None,
     source_date |-> None, line_index |-> None]

EntryLocation_Projected(source_date, line_index) ==
    [variant |-> "Projected", line_idx |-> None, index |-> None,
     source_date |-> source_date, line_index |-> line_index]

EntryLocation_Filter(index, source_date, line_index) ==
    [variant |-> "Filter", line_idx |-> None, index |-> index,
     source_date |-> source_date, line_index |-> line_index]

\* the closures the content operations are called with, by name: one that
\* changes nothing, one that drops the last word of a content that has two,
\* and one that gives the same content for every content
Operations == {"none", "drop", "same"}

Some(content) == [some |-> TRUE, content |-> content]

NoContent == [some |-> FALSE, content |-> <<>>]

RECURSIVE LastBlank(_)
LastBlank(c) ==
    IF c = <<>> THEN None
    ELSE IF c[Len(c)] = " " THEN Len(c) - 1
    ELSE LastBlank(SubSeq(c, 1, Len(c) - 1))

\* operation(content): Some(new_content) or None
Operation(name, c) ==
    IF name = "same" THEN Some(<<"z">>)
    ELSE IF name = "drop" /\ LastBlank(c) # None /\ LastBlank(c) > 0
    THEN Some(Slice(c, 0, LastBlank(c)))
    ELSE NoContent

\* the closures handed to mutate_entry: the one of set_entry_content, the one
\* of execute_content_append and the one of execute_content_operation
SetTo(content) == [kind |-> "set", arg |-> content]

PushStr(suffix) == [kind |-> "push_str", arg |-> suffix]

Apply(operation) == [kind |-> "operation", arg |-> operation]

\* the content a closure leaves in the entry and what it returns
CallClosure(f, c) ==
    IF f.kind = "set" THEN [content |-> f.arg, ret |-> TRUE]
    ELSE IF f.kind = "push_str" THEN [content |-> c \o f.arg, ret |-> TRUE]
    ELSE IF Operation(f.arg, c).some THEN [content |-> Operation(f.arg, c).content, ret |-> TRUE]
    ELSE [content |-> c, ret |-> FALSE]

\* storage::mutate_entry(date, path, line_index, f): load the lines of the
\* day, hand the entry at line_index to f and save the lines; None, and
\* nothing saved, when no entry is there
mutate_entry(doc, date, line_index, f) ==
    CHOOSE r \in
        {IF IsEntryAt(ls, line_index)
         THEN [journal |-> save_day_lines(doc, date,
                               [ls EXCEPT ![line_index + 1].content = CallClosure(f, @).content]),
               some |-> TRUE,
               ret |-> CallClosure(f, ls[line_index + 1].content).ret]
         ELSE [journal |-> doc, some |-> FALSE, ret |-> FALSE] :
            ls \in {load_day_lines(doc, date)}} : TRUE

\* app.save(): the loaded lines are written to the section of the current date
save(doc, a) == save_day_lines(doc, a.current_date, a.lines)

\* app.reload_current_day()
reload_current_day(doc, a) == [a EXCEPT !.lines = load_day_lines(doc, a.current_date)]

\* if let ViewMode::Filter(state) = &mut app.view
\*     && let Some(filter_entry) = state.entries.get_mut(*index)
SetFilterEntry(a, index, f) ==
    IF a.view = "Filter" /\ index < Len(a.entries)
    THEN [a EXCEPT !.entries[index + 1] = CallClosure(f, @).content]
    ELSE a

\* if entry.source_date == app.current_date { app.reload_current_day()?; }
ReloadIfCurrent(doc, a, source_date) ==
    IF source_date = a.current_date THEN reload_current_day(doc, a) ELSE a

\* what a content operation leaves and how it ends: it returns Ok, with the
\* content for get_entry_content, or the thread panics
Ok(doc, a, content) == [journal |-> doc, app |-> a, outcome |-> "Ok", content |-> content]

\* app.lines[*line_idx] with line_idx >= app.lines.len()
Panic(doc, a) == [journal |-> doc, app |-> a, outcome |-> "panic", content |-> <<>>]

get_entry_content(doc, a, location) ==
    IF location.variant = "Daily"
    THEN IF location.line_idx >= Len(a.lines) THEN Panic(doc, a)
         ELSE IF a.lines[location.line_idx + 1].kind = "Entry"
         THEN Ok(doc, a, a.lines[location.line_idx + 1].content)
         ELSE Ok(doc, a, <<>>)
    ELSE LET ls == load_day_lines(doc, location.source_date)
         IN  IF IsEntryAt(ls, location.line_index)
             THEN Ok(doc, a, ls[location.line_index + 1].content)
             ELSE Ok(doc, a, <<>>)

\* the Daily arm of set_entry_content, execute_content_operation and
\* execute_content_append: the entry of the loaded lines gets the content
\* and the lines are saved
SetLoaded(doc, a, line_idx, content) ==
    CHOOSE r \in
        {Ok(save(doc, edited), edited, <<>>) :
            edited \in {[a EXCEPT !.lines[line_idx + 1].content = content]}} : TRUE

\* set_entry_content that, for a Filter location, writes the entry of the
\* filter view only
set_entry_content_ViewOnly(doc, a, location, content) ==
    IF location.variant = "Daily"
    THEN IF location.line_idx >= Len(a.lines) THEN Panic(doc, a)
         ELSE IF a.lines[location.line_idx + 1].kind = "Entry"
         THEN SetLoaded(doc, a, location.line_idx, content)
         ELSE Ok(doc, a, <<>>)
    ELSE IF location.variant = "Projected"
    THEN Ok(mutate_entry(doc, location.source_date, location.line_index, SetTo(content)).journal,
            a, <<>>)
    ELSE Ok(doc, SetFilterEntry(a, location.index, SetTo(content)), <<>>)

set_entry_content(doc, a, location, content) ==
    IF location.variant = "Daily"
    THEN IF location.line_idx >= Len(a.lines) THEN Panic(doc, a)
         ELSE IF a.lines[location.line_idx + 1].kind = "Entry"
         THEN SetLoaded(doc, a, location.line_idx, content)
         ELSE Ok(doc, a, <<>>)
    ELSE CHOOSE r \in
            {IF location.variant = "Projected" THEN Ok(m.journal, a, <<>>)
             ELSE Ok(m.journal,
                     ReloadIfCurrent(m.journal,
                                     SetFilterEntry(a, location.index, SetTo(content)),
                                     location.source_date),
                     <<>>) :
                m \in {mutate_entry(doc, location.source_date, location.line_index,
                                    SetTo(content))}} : TRUE

\* the content the closure makes of the stored entry of a Filter location
NewContent(doc, location, operation) ==
    Operation(operation,
              load_day_lines(doc, location.source_date)[location.line_index + 1].content).content

\* operation names the closure the caller passes
execute_content_operation(doc, a, location, operation) ==
    IF location.variant = "Daily"
    THEN IF location.line_idx >= Len(a.lines) THEN Panic(doc, a)
         ELSE IF /\ a.lines[location.line_idx + 1].kind = "Entry"
                 /\ Operation(operation, a.lines[location.line_idx + 1].content).some
         THEN SetLoaded(doc, a, location.line_idx,
                        Operation(operation, a.lines[location.line_idx + 1].content).content)
         ELSE Ok(doc, a, <<>>)
    ELSE CHOOSE r \in
            {IF location.variant = "Filter" /\ m.some /\ m.ret
             THEN Ok(m.journal,
                     ReloadIfCurrent(m.journal,
                                     SetFilterEntry(a, location.index,
                                                    SetTo(NewContent(doc, location, operation))),
                                     location.source_date),
                     <<>>)
             ELSE Ok(m.journal, a, <<>>) :
                m \in {mutate_entry(doc, location.source_date, location.line_index,
                                    Apply(operation))}} : TRUE

execute_content_append(doc, a, location, suffix) ==
    IF location.variant = "Daily"
    THEN IF location.line_idx >= Len(a.lines) THEN Panic(doc, a)
         ELSE IF a.lines[location.line_idx + 1].kind = "Entry"
         THEN SetLoaded(doc, a, location.line_idx, a.lines[location.line_idx + 1].content \o suffix)
         ELSE Ok(doc, a, <<>>)
    ELSE CHOOSE r \in
            {IF location.variant = "Projected" THEN Ok(m.journal, a, <<>>)
             ELSE Ok(m.journal,
                     ReloadIfCurrent(m.journal,
                                     SetFilterEntry(a, location.index, PushStr(suffix)),
                                     location.source_date),
                     <<>>) :
                m \in {mutate_entry(doc, location.source_date, location.line_index,
                                    PushStr(suffix))}} : TRUE

\* the dates of the days the App is opened on and the locations point to
ContentDates == {Dates[1], Dates[2]}

\* the locations the content operations are called with: every line index a
\* day of MaxLines lines has and the one after, on every date
Locations ==
    {EntryLocation_Daily(i) : i \in 0..MaxLines}
    \cup {EntryLocation_Projected(d, i) : d \in ContentDates, i \in 0..MaxLines}
    \cup {EntryLocation_Filter(0, d, i) : d \in ContentDates, i \in 0..MaxLines}

\* format!(" #{}", self.tag)
Suffixes == {<<" ", "#", "t">>}

\* the journal one save_day call leaves of the empty journal, and the journal
\* a second call then leaves
EngineDocs ==
    {[opened |-> first, stored |-> update_day_content(first, d2, c2)] :
        first \in {update_day_content(<<>>, d1, c1) : d1 \in ContentDates, c1 \in Contents},
        d2 \in ContentDates, c2 \in Contents}

\* the contents of the entries of the filter view
FilterEntries(doc, now) ==
    LET es == collect_filtered_entries(DefaultFilter, doc, now).entries
    IN  [i \in 1..Len(es) |-> es[i].content]

\* a call of a content operation: the location, the journal and the App it
\* found, how it ended, the content it returned, and the content the location
\* held before
ContentCall(op, location, text, r, original, targeted) ==
    [op |-> op, date |-> None, text |-> text, before |-> journal, ret |-> r.outcome,
     loads |-> 0, location |-> location, app_before |-> app, content |-> r.content,
     original |-> original, targeted |-> targeted]

\* a call that executes an undoable action or the action it returned: the
\* operation of the action, the content the location held before the first
\* execution (c0), how many times the action was undone before (round), and
\* the content a restore found at the location (current)
ActionCall(call, action, c0, round, current) ==
    call @@ [action |-> action, c0 |-> c0, round |-> round, current |-> current]

\* the location addresses an entry: for Daily in the loaded lines, for
\* Projected and Filter in the stored day
AddressesEntry(doc, a, location) ==
    IF location.variant = "Daily"
    THEN IsEntryAt(a.lines, location.line_idx)
    ELSE IsEntryAt(load_day_lines(doc, location.source_date), location.line_index)

\* a panic ends the run
LeftAfter(r) == IF r.outcome = "panic" THEN 0 ELSE left - 1

GetEntryContent(location) ==
    /\ left > 0
    /\ \E r \in {get_entry_content(journal, app, location)} :
          /\ journal' = r.journal
          /\ app' = r.app
          /\ last' = ContentCall("get_entry_content", location, <<>>, r, <<>>,
                                 AddressesEntry(journal, app, location))
          /\ left' = LeftAfter(r)
    /\ UNCHANGED <<today, context, disk>>

SetEntryContent(location, content) ==
    /\ left > 0
    /\ \E r \in {set_entry_content(journal, app, location, content)} :
          /\ journal' = r.journal
          /\ app' = r.app
          /\ last' = ContentCall("set_entry_content", location, content, r, <<>>,
                                 AddressesEntry(journal, app, location))
          /\ left' = LeftAfter(r)
    /\ UNCHANGED <<today, context, disk>>

\* DeferDate, RemoveDate, RemoveLastTag and RemoveAllTags::execute on one
\* target, whose original_content is the content at its location
ExecuteContentOperation(location, name) ==
    /\ left > 0
    /\ \E r \in {execute_content_operation(journal, app, location, name)},
          got \in {get_entry_content(journal, app, location)} :
          /\ journal' = r.journal
          /\ app' = r.app
          /\ last' = ActionCall(
                         ContentCall("execute_content_operation", location, <<>>, r, got.content,
                                     got.outcome = "Ok" /\ AddressesEntry(journal, app, location)),
                         [operation |-> name, suffix |-> <<>>], got.content, 0, <<>>)
          /\ left' = LeftAfter(r)
    /\ UNCHANGED <<today, context, disk>>

\* AppendTag::execute on one target
ExecuteContentAppend(location, suffix) ==
    /\ left > 0
    /\ \E r \in {execute_content_append(journal, app, location, suffix)},
          got \in {get_entry_content(journal, app, location)} :
          /\ journal' = r.journal
          /\ app' = r.app
          /\ last' = ActionCall(
                         ContentCall("execute_content_append", location, suffix, r, got.content,
                                     got.outcome = "Ok" /\ AddressesEntry(journal, app, location)),
                         [operation |-> "append", suffix |-> suffix], got.content, 0, <<>>)
          /\ left' = LeftAfter(r)
    /\ UNCHANGED <<today, context, disk>>

\* RestoreDate and RestoreContent::execute, the reverse action the last
\* action returned: get_entry_content, then set_entry_content of the
\* original content of its target; the content found is kept for the redo
RestoreContent ==
    /\ last.op \in {"execute_content_operation", "execute_content_append", "redo"}
    /\ last.ret = "Ok"
    /\ \E got \in {get_entry_content(journal, app, last.location)} :
       \E r \in {IF got.outcome = "panic" THEN got
                 ELSE set_entry_content(journal, app, last.location, last.original)} :
          /\ journal' = r.journal
          /\ app' = r.app
          /\ last' = ActionCall(
                         ContentCall("restore", last.location, last.original, r, last.original,
                                     last.targeted),
                         last.action, last.c0, last.round, got.content)
    /\ UNCHANGED <<today, left, context, disk>>

\* the redo action a restore returned, executed: the action again, on
\* new_targets, whose original_content is the content the restore found
RedoContent ==
    /\ last.op = "restore"
    /\ last.ret = "Ok"
    /\ last.round = 0
    /\ \E r \in {IF last.action.operation = "append"
                  THEN execute_content_append(journal, app, last.location, last.action.suffix)
                  ELSE execute_content_operation(journal, app, last.location,
                                                 last.action.operation)} :
          /\ journal' = r.journal
          /\ app' = r.app
          /\ last' = ActionCall(
                         ContentCall("redo", last.location, last.text, r, last.current,
                                     last.targeted),
                         last.action, last.c0, 1, <<>>)
    /\ UNCHANGED <<today, left, context, disk>>

\* the App opened on a journal: the lines of the current day are loaded and
\* the view is the daily one or the filter one
Opened(doc, now, view) ==
    [current_date |-> now,
     lines |-> load_day_lines(doc, now),
     view |-> view,
     entries |-> IF view = "Filter" THEN FilterEntries(doc, now) ELSE <<>>]

\* a run of SpecContent: the App was opened on a journal the engine produced,
\* before or after the last save_day call of another path; one content
\* operation is called, and then the reverse action if it returned one
InitContent ==
    /\ today = 20260105
    /\ left = 1
    /\ last = NoCall
    /\ \E docs \in EngineDocs, view \in {"Daily", "Filter"} :
          /\ journal = docs.stored
          /\ app \in {Opened(docs.opened, today, view), Opened(docs.stored, today, view)}
    /\ context = NoContext
    /\ disk = NoDisk

NextContent ==
    \/ \E location \in Locations : GetEntryContent(location)
    \/ \E location \in Locations, content \in NewContents : SetEntryContent(location, content)
    \/ \E location \in Locations, name \in Operations : ExecuteContentOperation(location, name)
    \/ \E location \in Locations, suffix \in Suffixes : ExecuteContentAppend(location, suffix)
    \/ RestoreContent
    \/ RedoContent

SpecContent == InitContent /\ [][NextContent]_vars

\* the location of the last call addressed no entry
StaleLocation == ~last.targeted

\* C12: no crash on stale locations. get_entry_content, set_entry_content,
\* execute_content_operation and execute_content_append never abort the
\* process; when the index of the location is out of range or addresses a
\* line that is no entry, with Daily, Projected and Filter alike, the call
\* returns normally and the stored document is unchanged.
C12_NoCrashOnStaleLocation ==
    last.op \in {"get_entry_content", "set_entry_content",
                 "execute_content_operation", "execute_content_append"} =>
        /\ last.ret # "panic"
        /\ StaleLocation => journal = last.before

\* the entry at the location of the last call, in the loaded lines for Daily
\* and in the stored day for Projected and Filter
TargetContent ==
    IF last.location.variant = "Daily"
    THEN app.lines[last.location.line_idx + 1].content
    ELSE load_day_lines(journal, last.location.source_date)[last.location.line_index + 1].content

TargetIsEntry == AddressesEntry(journal, app, last.location)

Daily == [kind |-> "Daily", arg |-> 0]

Weekday == [kind |-> "Weekday", arg |-> 0]

Weekly(weekday) == [kind |-> "Weekly", arg |-> weekday]

Monthly(n) == [kind |-> "Monthly", arg |-> n]

\* the weekdays Sat and Sun as num_days_from_monday
Sat == 5

Sun == 6

last_day_of_month(date) ==
    LET next_month == IF month(date) = 12 THEN from_ymd_opt(year(date) + 1, 1, 1)
                      ELSE from_ymd_opt(year(date), month(date) + 1, 1)
    IN  IF next_month = None THEN 28 ELSE day(PrevDay(next_month))

\* RecurringPattern::matches without the clamp to the month's last day
matches_NoClamp(pattern, date) ==
    IF pattern.kind = "Daily" THEN TRUE
    ELSE IF pattern.kind = "Weekday" THEN num_days_from_monday(date) \notin {Sat, Sun}
    ELSE IF pattern.kind = "Weekly" THEN num_days_from_monday(date) = pattern.arg
    ELSE day(date) = pattern.arg

\* RecurringPattern::matches
matches(pattern, date) ==
    IF pattern.kind = "Daily" THEN TRUE
    ELSE IF pattern.kind = "Weekday" THEN num_days_from_monday(date) \notin {Sat, Sun}
    ELSE IF pattern.kind = "Weekly" THEN num_days_from_monday(date) = pattern.arg
    ELSE LET last_day == last_day_of_month(date)
         IN  IF pattern.arg > last_day THEN day(date) = last_day
             ELSE day(date) = pattern.arg

(***************************************************************************)
(* Calls of the pure functions                                             *)
(***************************************************************************)
\* the days the functions are called on: a Monday early in a year, a day
\* after and a day before the 29th of February of a leap year
Todays == {20260105, 20240301, 20240210}

\* a number as the user writes it, with or without the leading zero
Num(n, padded) == IF padded \/ n >= 10 THEN Pad(n, 2) ELSE Pad(n, 1)

\* the date strings: month/day, month/day/yy, month/day/yyyy, yyyy/month/day
DateInputs ==
    [form : {"MM/DD"}, y : {0}, m : 0..13, d : {0, 1, 5, 10, 28, 29, 30, 31, 32}, padded : BOOLEAN]
    \cup [form : {"MM/DD/YY", "MM/DD/YYYY", "YYYY/MM/DD"}, y : {2024, 2025}, m : {2, 13},
          d : {1, 29}, padded : BOOLEAN]

DateText(in) ==
    LET md == Num(in.m, in.padded) \o <<"/">> \o Num(in.d, in.padded)
    IN  IF in.form = "MM/DD" THEN md
        ELSE IF in.form = "MM/DD/YY" THEN md \o <<"/">> \o Pad(in.y % 100, 2)
        ELSE IF in.form = "MM/DD/YYYY" THEN md \o <<"/">> \o Pad(in.y, 4)
        ELSE Pad(in.y, 4) \o <<"/">> \o md

\* a call of a pure function: what it was given and what it returned
PureCall(op, in, text, ret) ==
    [op |-> op, date |-> None, text |-> text, before |-> <<>>, ret |-> ret, loads |-> 0, in |-> in]

ParseLaterDate(in) ==
    /\ left > 0
    /\ last' = PureCall("parse_later_date", in, DateText(in), parse_later_date(DateText(in), today))
    /\ left' = left - 1
    /\ UNCHANGED <<journal, today, app, context, disk>>

ParseDatePreferPast(in) ==
    /\ left > 0
    /\ last' = PureCall("parse_date_prefer_past", in, DateText(in),
                        parse_date_prefer_past(DateText(in), today))
    /\ left' = left - 1
    /\ UNCHANGED <<journal, today, app, context, disk>>

\* the patterns and the dates they are matched against: the week of Monday
\* 2026-01-12, and the ends of months of 28, 29, 30 and 31 days
Patterns ==
    {Daily, Weekday} \cup {Weekly(w) : w \in 0..6} \cup {Monthly(n) : n \in (0..32) \cup {255}}

MatchDates ==
    {20260112, 20260113, 20260114, 20260115, 20260116, 20260117, 20260118,
     20260227, 20260228, 20240228, 20240229, 20260429, 20260430, 20260130, 20260131,
     20261230, 20261231}

Matches(pattern, date) ==
    /\ left > 0
    /\ last' = [PureCall("matches", pattern, <<>>, matches(pattern, date)) EXCEPT !.date = date]
    /\ left' = left - 1
    /\ UNCHANGED <<journal, today, app, context, disk>>

\* the texts normalize_natural_dates is called with: the repository's
\* examples, abbreviations and upper case, a marker twice, an offset too
\* large to resolve, markers inside words, and text that is no marker
Texts ==
    {<<"C", "a", "l", "l", " ", "d", "e", "n", "t", "i", "s", "t", " ", "@", "t", "o", "m", "o", "r", "r", "o", "w">>,
     <<"R", "e", "v", "i", "e", "w", " ", "@", "3", "d", " ", "a", "n", "d", " ", "@", "-", "3", "d">>,
     <<"M", "e", "e", "t", "i", "n", "g", " ", "@", "n", "e", "x", "t", "-", "m", "o", "n", "d", "a", "y">>,
     <<"@", "n", "e", "x", "t", "-", "m", "o", "n", " ", "@", "l", "a", "s", "t", "-", "S", "U", "N", ".">>,
     <<"@", "T", "o", "m", "o", "r", "r", "o", "w", " ", "@", "t", "o", "m", "o", "r", "r", "o", "w">>,
     <<"n", "o", " ", "m", "a", "r", "k", "e", "r", " ", "@", "0", "1", "/", "0", "6">>,
     <<"@", "9", "9", "9", "9", "9", "9", "9", "9", "9", "d", " ", "@", "1", "d">>,
     <<"@", "3", "d", "@", "3", "d">>,
     <<"a", "@", "y", "e", "s", "t", "e", "r", "d", "a", "y", "b", " ", "@", "0", "d">>,
     <<"@", "n", "e", "x", "t", "-", "t", "h", "u", "r", " ", "@", "-", "3", "d", " ", "@", "3", "d">>,
     <<"@", "n", "e", "x", "t", "-", " ", "@", "l", "a", "s", "t", "-", "f", "r", "i">>}

NormalizeNaturalDates(text) ==
    /\ left > 0
    /\ last' = PureCall("normalize_natural_dates", <<>>, text, normalize_natural_dates(text, today))
    /\ left' = left - 1
    /\ UNCHANGED <<journal, today, app, context, disk>>

\* the entries and the filters entry_matches_filter is called with
MatchEntries ==
    {EntryLine(t, c) : t \in {TaskOpen, TaskDone, Note, Event},
                       c \in {<<"c", "a", "l", "l", " ", "B", "o", "b", " ", "#", "w", "o", "r", "k">>,
                               <<"#", "W", "o", "r", "k", "-", "x", " ", "#", "x">>,
                               <<"#", "w", "o", "r", "k", "s", "h", "o", "p", " ", "C", "A", "L", "L", "B", "O", "B">>,
                               <<>>}}

\* the filters: every setting of the type fields with no text fields, every
\* setting of the text fields with no type fields, and both kinds together
MatchFilters ==
    LET types == [entry_type : {NoType, FilterTask, FilterNote},
                  completed : {NoBool, SomeTrue, SomeFalse},
                  exclude_types : {<<>>, <<FilterNote>>, <<FilterTask, FilterEvent>>}]
        texts == [tags : {<<>>, <<<<"w", "o", "r", "k">>>>, <<<<"W", "o", "r", "k", "-", "X">>, <<"x">>>>},
                  exclude_tags : {<<>>, <<<<"W", "O", "R", "K">>>>},
                  search_terms : {<<>>, <<<<"C", "A", "L", "L">>, <<"b", "o", "b">>>>},
                  exclude_terms : {<<>>, <<<<"l", " ", "b">>>>}]
        no_types == [entry_type |-> NoType, completed |-> NoBool, exclude_types |-> <<>>]
        no_texts == [tags |-> <<>>, exclude_tags |-> <<>>, search_terms |-> <<>>,
                     exclude_terms |-> <<>>]
        done_tasks == [entry_type |-> FilterTask, completed |-> SomeTrue, exclude_types |-> <<>>]
        with(ty, tx) ==
            [DefaultFilter EXCEPT !.entry_type = ty.entry_type, !.completed = ty.completed,
                                  !.exclude_types = ty.exclude_types, !.tags = tx.tags,
                                  !.exclude_tags = tx.exclude_tags,
                                  !.search_terms = tx.search_terms,
                                  !.exclude_terms = tx.exclude_terms]
    IN  {with(ty, no_texts) : ty \in types} \cup {with(no_types, tx) : tx \in texts}
        \cup {with(done_tasks, tx) : tx \in texts}

EntryMatchesFilter(entry, filter) ==
    /\ left > 0
    /\ last' = PureCall("entry_matches_filter", [entry |-> entry, filter |-> filter], <<>>,
                        entry_matches_filter(entry, filter))
    /\ left' = left - 1
    /\ UNCHANGED <<journal, today, app, context, disk>>

\* the most tokens of a filter query
MaxTokens == 3

\* the tokens of the filter queries, each with its kind, whether its date or
\* type parses, and the date or type it names
TokenPool ==
    {[text |-> <<"@", "b", "e", "f", "o", "r", "e", ":", "1", "/", "1", "5", "/", "2", "6">>, kind |-> "before", ok |-> TRUE, value |-> 20260115],
     [text |-> <<"@", "b", "e", "f", "o", "r", "e", ":", "2", "/", "1", "/", "2", "6">>, kind |-> "before", ok |-> TRUE, value |-> 20260201],
     [text |-> <<"@", "b", "e", "f", "o", "r", "e", ":", "x">>, kind |-> "before", ok |-> FALSE, value |-> None],
     [text |-> <<"@", "a", "f", "t", "e", "r", ":", "1", "/", "1", "/", "2", "6">>, kind |-> "after", ok |-> TRUE, value |-> 20260101],
     [text |-> <<"@", "a", "f", "t", "e", "r", ":", "3", "/", "1", "/", "2", "6">>, kind |-> "after", ok |-> TRUE, value |-> 20260301],
     [text |-> <<"!", "t">>, kind |-> "type", ok |-> TRUE, value |-> FilterTask],
     [text |-> <<"!", "n">>, kind |-> "type", ok |-> TRUE, value |-> FilterNote],
     [text |-> <<"#", "w">>, kind |-> "tag", ok |-> TRUE, value |-> None]}

RECURSIVE TokenLists(_)
TokenLists(n) ==
    IF n = 0 THEN {<<>>}
    ELSE TokenLists(n - 1) \cup {Append(ts, t) : ts \in TokenLists(n - 1), t \in TokenPool}

\* the query the tokens make, a blank between two tokens
QueryOf(ts) == join([i \in 1..Len(ts) |-> ts[i].text], <<" ">>)

ParseFilterQuery(ts) ==
    /\ left > 0
    /\ last' = PureCall("parse_filter_query", ts, QueryOf(ts), parse_filter_query(QueryOf(ts), today))
    /\ left' = left - 1
    /\ UNCHANGED <<journal, today, app, context, disk>>

\* the keywords and the modifiers of the type tokens: those of the table,
\* and others
TypeKeywords ==
    {<<"t", "a", "s", "k", "s">>,
     <<"t", "a", "s", "k">>,
     <<"t">>,
     <<"n", "o", "t", "e", "s">>,
     <<"n", "o", "t", "e">>,
     <<"n">>,
     <<"e", "v", "e", "n", "t", "s">>,
     <<"e", "v", "e", "n", "t">>,
     <<"e">>,
     <<"T">>,
     <<"t", "a", "s">>,
     <<>>,
     <<"x">>}

\* has |-> FALSE is a token without '/'
TypeModifiers ==
    {[has |-> FALSE, text |-> <<>>]}
    \cup {[has |-> TRUE, text |-> m] : m \in
            {<<"d", "o", "n", "e">>,
             <<"c", "o", "m", "p", "l", "e", "t", "e", "d">>,
             <<"a", "l", "l">>,
             <<>>,
             <<"D", "o", "n", "e">>,
             <<"x">>}}

\* what comes before the type token in the query, with the entry_type and
\* completed it leaves
TypePriors ==
    {[text |-> <<>>, entry_type |-> NoType, completed |-> NoBool],
     [text |-> <<"!", "t", "/", "d", "o", "n", "e", " ">>, entry_type |-> FilterTask, completed |-> SomeTrue],
     [text |-> <<"!", "n", " ">>, entry_type |-> FilterNote, completed |-> NoBool],
     [text |-> <<"#", "w", " ">>, entry_type |-> NoType, completed |-> NoBool]}

\* the token !<kw> or !<kw>/<modifier>
TypeTokenText(kw, modifier) ==
    <<"!">> \o kw \o (IF modifier.has THEN <<"/">> \o modifier.text ELSE <<>>)

\* parse_filter_query on a query that ends with a type token
ParseTypeToken(prior, kw, modifier) ==
    /\ left > 0
    /\ last' = PureCall("parse_type_token",
                        [prior |-> prior, kw |-> kw, modifier |-> modifier],
                        prior.text \o TypeTokenText(kw, modifier),
                        parse_filter_query(prior.text \o TypeTokenText(kw, modifier), today))
    /\ left' = left - 1
    /\ UNCHANGED <<journal, today, app, context, disk>>

\* the words a text with shortcuts is made of: each is a shortcut with its
\* key, or text that holds no shortcut (key <<>>)
FilterWords ==
    {[text |-> <<"$", "a">>, key |-> <<"a">>],
     [text |-> <<"$", "a", "b">>, key |-> <<"a", "b">>],
     [text |-> <<"$", "x">>, key |-> <<"x">>],
     [text |-> <<"#", "w">>, key |-> <<>>],
     [text |-> <<"a", "$">>, key |-> <<>>]}

TagWords ==
    {[text |-> <<"#", "1">>, key |-> <<"1">>],
     [text |-> <<"#", "2">>, key |-> <<"2">>],
     [text |-> <<"#", "1", "2">>, key |-> <<>>],
     [text |-> <<"#", "a">>, key |-> <<>>],
     [text |-> <<"1">>, key |-> <<>>]}

RECURSIVE WordLists(_, _)
WordLists(pool, n) ==
    IF n = 0 THEN {<<>>}
    ELSE WordLists(pool, n - 1) \cup {Append(ws, w) : ws \in WordLists(pool, n - 1), w \in pool}

\* the saved-filter maps of the configuration: none, one filter, two filters
SavedFilters ==
    {[k \in {} |-> <<>>],
     [k \in {<<"a">>} |-> <<"!", "t">>],
     [k \in {<<"a">>, <<"a", "b">>} |-> IF k = <<"a">> THEN <<"!", "t">> ELSE <<"#", "w", " ", "n", "o", "t", ":", "#", "x">>]}

\* the favorite-tag maps: none, one tag, an empty entry and a tag
FavoriteTags ==
    {[k \in {} |-> <<>>],
     [k \in {<<"1">>} |-> <<"w", "o", "r", "k">>],
     [k \in {<<"1">>, <<"2">>} |-> IF k = <<"1">> THEN <<>> ELSE <<"q">>]}

ExpandSavedFilters(ws, filters) ==
    /\ left > 0
    /\ last' = PureCall("expand_saved_filters", [words |-> ws, map |-> filters], QueryOf(ws),
                        expand_saved_filters(QueryOf(ws), filters))
    /\ left' = left - 1
    /\ UNCHANGED <<journal, today, app, context, disk>>

ExpandFavoriteTags(ws, favorite_tags) ==
    /\ left > 0
    /\ last' = PureCall("expand_favorite_tags", [words |-> ws, map |-> favorite_tags], QueryOf(ws),
                        expand_favorite_tags(QueryOf(ws), favorite_tags))
    /\ left' = left - 1
    /\ UNCHANGED <<journal, today, app, context, disk>>

\* the natural phrases a marker is written with
Phrases ==
    {<<"t", "o", "m", "o", "r", "r", "o", "w">>,
     <<"y", "e", "s", "t", "e", "r", "d", "a", "y">>,
     <<"3", "d">>,
     <<"-", "3", "d">>,
     <<"9", "d">>,
     <<"n", "e", "x", "t", "-", "m", "o", "n">>,
     <<"l", "a", "s", "t", "-", "f", "r", "i">>,
     <<"n", "e", "x", "t", "-", "s", "u", "n", "d", "a", "y">>,
     <<"L", "a", "s", "t", "-", "M", "o", "n", "d", "a", "y">>}

\* normalize_natural_dates on the marker "@" + phrase alone
NormalizePhrase(phrase) ==
    /\ left > 0
    /\ last' = PureCall("normalize_phrase", phrase, <<"@">> \o phrase,
                        normalize_natural_dates(<<"@">> \o phrase, today))
    /\ left' = left - 1
    /\ UNCHANGED <<journal, today, app, context, disk>>

\* a run of SpecPure: one call of a pure function on some day
InitPure ==
    /\ journal = <<>>
    /\ today \in Todays
    /\ left = 1
    /\ last = NoCall
    /\ app = NoApp
    /\ context = NoContext
    /\ disk = NoDisk

NextPure ==
    \/ \E in \in DateInputs : ParseLaterDate(in)
    \/ \E in \in DateInputs : ParseDatePreferPast(in)
    \/ \E pattern \in Patterns, date \in MatchDates : Matches(pattern, date)
    \/ \E text \in Texts : NormalizeNaturalDates(text)
    \/ \E entry \in MatchEntries, filter \in MatchFilters : EntryMatchesFilter(entry, filter)
    \/ \E ts \in TokenLists(MaxTokens) : ParseFilterQuery(ts)
    \/ \E prior \in TypePriors, kw \in TypeKeywords, modifier \in TypeModifiers :
          ParseTypeToken(prior, kw, modifier)
    \/ \E ws \in WordLists(FilterWords, MaxTokens), filters \in SavedFilters :
          ExpandSavedFilters(ws, filters)
    \/ \E ws \in WordLists(TagWords, MaxTokens), favorite_tags \in FavoriteTags :
          ExpandFavoriteTags(ws, favorite_tags)
    \/ \E phrase \in Phrases : NormalizePhrase(phrase)

SpecPure == InitPure /\ [][NextPure]_vars

\* year y has a day d in month m
HasDay(y, m, d) ==
    \/ m \in {1, 3, 5, 7, 8, 10, 12} /\ d \in 1..31
    \/ m \in {4, 6, 9, 11} /\ d \in 1..30
    \/ m = 2 /\ d \in 1..28
    \/ m = 2 /\ d = 29 /\ y % 4 = 0 /\ (y % 100 # 0 \/ y % 400 = 0)

Ymd(y, m, d) == y * 10000 + m * 100 + d

\* the last call was given a yearless month/day that this year has
YearlessValid == last.in.form = "MM/DD" /\ HasDay(year(today), last.in.m, last.in.d)

ThisYear == Ymd(year(today), last.in.m, last.in.d)

\* C15 as claimed: parse_later_date on a valid yearless MM/DD gives the day
\* in today's year when that is on or after today, else the same month/day
\* in the following year; the result is never before today.
C15_AlwaysFuture ==
    (last.op = "parse_later_date" /\ YearlessValid) =>
        /\ last.ret = IF ThisYear >= today THEN ThisYear
                      ELSE Ymd(year(today) + 1, last.in.m, last.in.d)
        /\ last.ret >= today

\* C15 as amended: the same, except that a 02/29 already past in today's
\* (leap) year gives no date, the following year having no such day; a date
\* that is returned is never before today.
C15_AlwaysFutureWhenItExists ==
    (last.op = "parse_later_date" /\ YearlessValid) =>
        /\ last.ret = IF ThisYear >= today THEN ThisYear
                      ELSE IF last.in.m = 2 /\ last.in.d = 29 THEN None
                      ELSE Ymd(year(today) + 1, last.in.m, last.in.d)
        /\ last.ret # None => last.ret >= today

\* a month/day already past this year was rolled into the following year
C15_Witness ==
    /\ last.op = "parse_later_date"
    /\ YearlessValid
    /\ ThisYear < today
    /\ last.ret = Ymd(year(today) + 1, last.in.m, last.in.d)

\* the date an explicit year/month/day names, if there is such a day
ExplicitDate == IF HasDay(last.in.y, last.in.m, last.in.d)
                THEN Ymd(last.in.y, last.in.m, last.in.d) ELSE None

\* C16 as claimed: parse_date_prefer_past on a valid yearless MM/DD gives the
\* day in today's year when that is on or before today, else the same
\* month/day in the previous year, never a date after today; a string with
\* an explicit year resolves to that date.
C16_PreferPast ==
    last.op = "parse_date_prefer_past" =>
        /\ YearlessValid =>
              /\ last.ret = IF ThisYear <= today THEN ThisYear
                            ELSE Ymd(year(today) - 1, last.in.m, last.in.d)
              /\ last.ret <= today
        /\ last.in.form # "MM/DD" => last.ret = ExplicitDate

\* C16 as amended: the same, except that a 02/29 still to come in today's
\* (leap) year gives no date, the previous year having no such day.
C16_PreferPastWhenItExists ==
    last.op = "parse_date_prefer_past" =>
        /\ YearlessValid =>
              /\ last.ret = IF ThisYear <= today THEN ThisYear
                            ELSE IF last.in.m = 2 /\ last.in.d = 29 THEN None
                            ELSE Ymd(year(today) - 1, last.in.m, last.in.d)
              /\ last.ret <= today
        /\ last.in.form # "MM/DD" => last.ret = ExplicitDate

\* a month/day still to come this year was resolved into the previous year
C16_Witness ==
    /\ last.op = "parse_date_prefer_past"
    /\ YearlessValid
    /\ ThisYear > today
    /\ last.ret = Ymd(year(today) - 1, last.in.m, last.in.d)

\* the weekday of a date by Zeller's congruence, as days from Monday
ZellerFromMonday(date) ==
    LET m == IF month(date) < 3 THEN month(date) + 12 ELSE month(date)
        y == IF month(date) < 3 THEN year(date) - 1 ELSE year(date)
        h == (day(date) + ((13 * (m + 1)) \div 5) + (y % 100) + ((y % 100) \div 4)
              + ((y \div 100) \div 4) + 5 * (y \div 100)) % 7
    IN  (h + 5) % 7

\* the number of days of the month date lies in
MonthLength(date) ==
    CHOOSE n \in 28..31 : HasDay(year(date), month(date), n) /\ ~HasDay(year(date), month(date), n + 1)

\* C17: RecurringPattern::matches is the reference rule. Daily always;
\* Weekday on Monday to Friday; Weekly(w) on weekday w; Monthly(n) when the
\* day of month is min(n, number of days of the month).
C17_MatchesReference ==
    last.op = "matches" =>
        last.ret = (\/ last.in.kind = "Daily"
                    \/ last.in.kind = "Weekday" /\ ZellerFromMonday(last.date) \in 0..4
                    \/ last.in.kind = "Weekly" /\ ZellerFromMonday(last.date) = last.in.arg
                    \/ /\ last.in.kind = "Monthly"
                       /\ day(last.date) = Min(last.in.arg, MonthLength(last.date)))

\* Monthly(31) matched the 28th of February of a year that is not a leap
\* year
C17_Witness ==
    /\ last.op = "matches"
    /\ last.in = Monthly(31)
    /\ last.date = 20260228
    /\ last.ret = TRUE

\* w (in lower case) is a natural date marker without its '@': tomorrow,
\* yesterday, <N>d, -<N>d, next-<weekday>, last-<weekday>
IsNaturalMarker(w) ==
    \/ w \in {Tomorrow, Yesterday}
    \/ \E i \in 1..Len(WeekdayNames), p \in {NextDash, LastDash} :
          w \in {p \o WeekdayNames[i], p \o SubSeq(WeekdayNames[i], 1, 3)}
    \/ \E sign \in {0, 1} :
          /\ Len(w) >= sign + 2
          /\ sign = 1 => w[1] = "-"
          /\ w[Len(w)] = "d"
          /\ \A i \in (sign + 1)..(Len(w) - 1) : IsDigit(w[i])
          /\ w[sign + 1] # "0"

\* the length of the longest natural date marker that follows the '@' at
\* offset at of text, or 0
MarkerLenAt(text, at) ==
    LET lens == {n \in 1..(Len(text) - at - 1) :
                    IsNaturalMarker(to_lowercase(Slice(text, at + 1, at + 1 + n)))}
    IN  IF text[at + 1] # "@" \/ lens = {} THEN 0
        ELSE CHOOSE n \in lens : \A k \in lens : k <= n

\* text from offset at on, each marker that resolves replaced where it stands
RECURSIVE ReplacedInPlace(_, _, _)
ReplacedInPlace(text, at, now) ==
    IF at >= Len(text) THEN <<>>
    ELSE IF MarkerLenAt(text, at) = 0
    THEN <<text[at + 1]>> \o ReplacedInPlace(text, at + 1, now)
    ELSE LET marker == Slice(text, at + 1, at + 1 + MarkerLenAt(text, at))
         IN  (IF parse_natural_date(marker, now) # None
              THEN <<"@">> \o Pad(month(parse_natural_date(marker, now)), 2) \o <<"/">>
                   \o Pad(day(parse_natural_date(marker, now)), 2)
              ELSE <<"@">> \o marker)
             \o ReplacedInPlace(text, at + 1 + MarkerLenAt(text, at), now)

\* C18: normalize_natural_dates replaces every natural date marker that
\* parse_natural_date resolves by "@MM/DD", at the place where it stands, and
\* leaves every other character, unresolvable markers included, unchanged.
C18_NormalizeInPlace ==
    last.op = "normalize_natural_dates" => last.ret = ReplacedInPlace(last.text, 0, today)

\* a text with a marker that does not resolve and one that does was
\* normalized
C18_Witness ==
    /\ last.op = "normalize_natural_dates"
    /\ last.ret # last.text
    /\ \E at \in 0..(Len(last.text) - 1) :
          /\ MarkerLenAt(last.text, at) > 0
          /\ parse_natural_date(Slice(last.text, at + 1, at + 1 + MarkerLenAt(last.text, at)), today) = None

Elements(seq) == {seq[i] : i \in 1..Len(seq)}

Letters == Elements(Uppers) \cup Elements(Lowers)

TagLetters == Letters \cup Elements(Digits) \cup {"_", "-"}

\* the tags written in content: after each '#' that a letter follows, the
\* longest run of letters, digits, '_' and '-'
TagsIn(content) ==
    {SubSeq(content, he[1] + 1, he[2]) :
        he \in {x \in (1..Len(content)) \X (1..Len(content)) :
                  /\ x[1] < x[2]
                  /\ content[x[1]] = "#"
                  /\ content[x[1] + 1] \in Letters
                  /\ \A i \in (x[1] + 1)..x[2] : content[i] \in TagLetters
                  /\ x[2] < Len(content) => content[x[2] + 1] \notin TagLetters}}

\* a and b are the same text up to the case of their letters
SameIgnoringCase(a, b) ==
    /\ Len(a) = Len(b)
    /\ \A i \in 1..Len(a) : LowerChar(a[i]) = LowerChar(b[i])

\* term is, up to case, a substring of content
SubstringIgnoringCase(term, content) ==
    \E k \in 0..(Len(content) - Len(term)) :
        SameIgnoringCase(Slice(content, k, k + Len(term)), term)

\* C19: entry_matches_filter is true exactly when the type is the one asked
\* for, is not excluded, a Task's completion is the one asked for, every
\* required tag is a whole tag of the content up to case and no excluded tag
\* is, every search term is a substring up to case and no excluded term is.
C19_MatchesIffAll ==
    last.op = "entry_matches_filter" =>
        LET e == last.in.entry
            f == last.in.filter
            is_task == e.entry_type \in {TaskOpen, TaskDone}
            type == IF is_task THEN FilterTask ELSE IF e.entry_type = Note THEN FilterNote
                    ELSE FilterEvent
        IN  last.ret =
               (/\ f.entry_type = NoType \/ f.entry_type = type
                /\ type \notin Elements(f.exclude_types)
                /\ (f.completed = NoBool) \/ ~is_task
                      \/ (f.completed = SomeTrue /\ e.entry_type = TaskDone)
                      \/ (f.completed = SomeFalse /\ e.entry_type = TaskOpen)
                /\ \A t \in Elements(f.tags) : \E u \in TagsIn(e.content) : SameIgnoringCase(t, u)
                /\ \A t \in Elements(f.exclude_tags) :
                      ~\E u \in TagsIn(e.content) : SameIgnoringCase(t, u)
                /\ \A t \in Elements(f.search_terms) : SubstringIgnoringCase(t, e.content)
                /\ \A t \in Elements(f.exclude_terms) : ~SubstringIgnoringCase(t, e.content))

\* an entry whose only tag merely starts with the required tag was refused
C19_Witness ==
    /\ last.op = "entry_matches_filter"
    /\ last.in.filter.tags # <<>>
    /\ last.in.filter.exclude_tags = <<>>
    /\ last.in.filter.exclude_terms = <<>>
    /\ last.in.filter.search_terms = <<>>
    /\ last.in.filter.entry_type = NoType
    /\ last.in.filter.exclude_types = <<>>
    /\ last.in.filter.completed = NoBool
    /\ contains(to_lowercase(last.in.entry.content), <<"#">> \o to_lowercase(last.in.filter.tags[1]))
    /\ last.ret = FALSE

\* the tokens of the given kind that parse, before token k of ts
Setters(ts, kind, k) == {j \in 1..(k - 1) : ts[j].kind = kind /\ ts[j].ok}

\* the first token of the given kind that parses, or 0
FirstSetter(ts, kind) ==
    IF Setters(ts, kind, Len(ts) + 1) = {} THEN 0
    ELSE CHOOSE j \in Setters(ts, kind, Len(ts) + 1) :
            \A i \in Setters(ts, kind, Len(ts) + 1) : j <= i

\* what token k of ts adds to invalid_tokens when a single-valued field is
\* never overwritten
InvalidOf(ts, k) ==
    IF ts[k].kind = "before"
    THEN IF Setters(ts, "before", k) # {} THEN <<MultipleBefore>>
         ELSE IF ts[k].ok THEN <<>> ELSE <<ts[k].text>>
    ELSE IF ts[k].kind = "after"
    THEN IF Setters(ts, "after", k) # {} THEN <<MultipleAfter>>
         ELSE IF ts[k].ok THEN <<>> ELSE <<ts[k].text>>
    ELSE IF ts[k].kind = "type"
    THEN IF ~ts[k].ok THEN <<ts[k].text>>
         ELSE IF Setters(ts, "type", k) # {} /\ ts[FirstSetter(ts, "type")].value # ts[k].value
         THEN <<MultipleTypes>>
         ELSE <<>>
    ELSE IF ts[k].kind = "command" THEN <<ts[k].text>>
    ELSE <<>>

RECURSIVE InvalidUpTo(_, _)
InvalidUpTo(ts, k) == IF k = 0 THEN <<>> ELSE InvalidUpTo(ts, k - 1) \o InvalidOf(ts, k)

\* the texts, without their first character, of the tokens of a kind
RECURSIVE TextsOf(_, _)
TextsOf(ts, kind) ==
    IF ts = <<>> THEN <<>>
    ELSE (IF ts[1].kind = kind THEN <<ts[1].text>> ELSE <<>>) \o TextsOf(Tail(ts), kind)

\* C20: single-valued filter fields are never overwritten. before_date,
\* after_date and entry_type keep the value their first token set; a second
\* @before: or @after: token, or a !type token of another type, adds an
\* element to invalid_tokens; the tokens after it are still read.
C20_NeverOverwritten ==
    last.op = "parse_filter_query" =>
        LET ts == last.in
        IN  /\ last.ret.before_date = IF FirstSetter(ts, "before") = 0 THEN None
                                      ELSE ts[FirstSetter(ts, "before")].value
            /\ last.ret.after_date = IF FirstSetter(ts, "after") = 0 THEN None
                                     ELSE ts[FirstSetter(ts, "after")].value
            /\ last.ret.entry_type = IF FirstSetter(ts, "type") = 0 THEN NoType
                                     ELSE ts[FirstSetter(ts, "type")].value
            /\ last.ret.invalid_tokens = InvalidUpTo(ts, Len(ts))
            /\ last.ret.tags = [i \in 1..Len(TextsOf(ts, "tag")) |-> Tail(TextsOf(ts, "tag")[i])]
            /\ last.ret.search_terms = TextsOf(ts, "term")

\* a second @before: token with another date was refused and the tag after
\* it was read
C20_Witness ==
    /\ last.op = "parse_filter_query"
    /\ Len(last.in) = 3
    /\ last.in[1].kind = "before" /\ last.in[1].ok
    /\ last.in[2].kind = "before" /\ last.in[2].ok /\ last.in[2].value # last.in[1].value
    /\ last.in[3].kind = "tag"
    /\ last.ret.before_date = last.in[1].value
    /\ last.ret.invalid_tokens = <<MultipleBefore>>
    /\ Len(last.ret.tags) = 1

\* the type a keyword names in the table, case-sensitive
TableType(kw) ==
    CASE kw \in {<<"t", "a", "s", "k", "s">>, <<"t", "a", "s", "k">>, <<"t">>} -> FilterTask
      [] kw \in {<<"n", "o", "t", "e", "s">>, <<"n", "o", "t", "e">>, <<"n">>} -> FilterNote
      [] kw \in {<<"e", "v", "e", "n", "t", "s">>, <<"e", "v", "e", "n", "t">>, <<"e">>} -> FilterEvent
      [] OTHER -> NoType

\* the completed a Task keyword with this modifier sets
TableCompleted(modifier) ==
    IF modifier.has /\ modifier.text \in {<<"d", "o", "n", "e">>,
                                          <<"c", "o", "m", "p", "l", "e", "t", "e", "d">>}
    THEN SomeTrue
    ELSE IF modifier.has /\ modifier.text = <<"a", "l", "l">> THEN NoBool
    ELSE SomeFalse

SingleTrailingNewline(doc) ==
    \/ doc = <<>>
    \/ /\ Len(doc) >= 2
       /\ doc[Len(doc)] = "\n"
       /\ doc[Len(doc) - 1] \notin {" ", "\n", "\t", "\r"}

\* save_day took the remove, replace or insert branch of update_day_content
DayWasWritten ==
    /\ last.op = "save_day"
    /\ \/ find(last.before, day_header(last.date)) # None
       \/ \E i \in 1..Len(last.text) : last.text[i] \notin {" ", "\n", "\t", "\r"}

\* C24: single trailing newline. Every document update_day_content returns
\* when it removes, replaces or inserts a day is empty or ends with exactly
\* one "\n" after a non-blank last line, whatever trailing whitespace the
\* document or the new content had.
C24_SingleTrailingNewline ==
    DayWasWritten => SingleTrailingNewline(journal)

\* a day was removed from a document that ended with blank lines, and a
\* document with a single final "\n" is left
C24_Witness ==
    /\ DayWasWritten
    /\ \A i \in 1..Len(last.text) : last.text[i] \in {" ", "\n", "\t", "\r"}
    /\ Len(last.before) >= 2
    /\ last.before[Len(last.before)] = "\n"
    /\ last.before[Len(last.before) - 1] = "\n"
    /\ journal # <<>>
    /\ journal # last.before

\* C26: a deferred entry is projected onto one date only. Every entry that
\* collect_later_entries_for_date(T) returns from section S denotes T when its
\* marker is resolved from S (a yearless @MM/DD: the next occurrence of that
\* month and day on or after S), so it is returned for that one T and never
\* for a target earlier than its source date.
C26_ProjectedOntoOneDate ==
    last.op = "collect_later" =>
        \A i \in 1..Len(last.ret) :
            /\ extract_target_date(last.ret[i].content, last.ret[i].source_date) = last.date
            /\ last.ret[i].source_date <= last.date

\* C30: overdue agrees with the entry's own timeline. With the @overdue flag
\* set, collect_filtered_entries returns an entry only if its content has a
\* date marker and the date the marker denotes, counted from the entry's
\* section date, is strictly before today; an entry whose deferred date is
\* still ahead of today, or that has no marker, is never returned.
C30_OverdueOnOwnTimeline ==
    (last.op = "collect_filtered" /\ last.text = OverdueToken) =>
        \A i \in 1..Len(last.ret) :
            /\ extract_target_date(last.ret[i].content, last.ret[i].source_date) # None
            /\ extract_target_date(last.ret[i].content, last.ret[i].source_date) < today

(***************************************************************************)
(* Two journals                                                            *)
(***************************************************************************)
GlobalPath == "global.md"

ProjectPath == "project.md"

\* the two journal files of tests/multi_journal.rs, on Dates[1]
GlobalDoc == day_header(Dates[1]) \o <<"\n", "-", " ", "[", " ", "]", " ", "G", "\n">>

ProjectDoc == day_header(Dates[1]) \o <<"\n", "-", " ", "[", " ", "]", " ", "P", "\n">>

\* the whole documents save_journal is called with
JournalTexts == {<<>>, day_header(Dates[2]) \o <<"\n", "-", " ", "a", "\n">>}

\* set_active_slot(slot)
SetActiveSlot(slot) ==
    /\ context' = set_active_slot(context, slot)
    /\ UNCHANGED <<journal, today, left, last, app, disk>>

\* set_project_path(path)
SetProjectPath(path) ==
    /\ context' = set_project_path(context, path)
    /\ UNCHANGED <<journal, today, left, last, app, disk>>

\* load_journal()
LoadJournal ==
    /\ left > 0
    /\ \E text \in {load_journal(context, disk)} :
          last' = Call("load_journal", None, <<>>, text, text, 1)
    /\ left' = left - 1
    /\ UNCHANGED <<journal, today, app, context, disk>>

\* save_journal(content)
SaveJournal(content) ==
    /\ left > 0
    /\ disk' = save_journal(context, disk, content)
    /\ last' = Call("save_journal", None, content, <<>>, <<>>, 0)
    /\ left' = left - 1
    /\ UNCHANGED <<journal, today, app, context>>

\* load_day(date) with a journal context set
LoadDayOfSlot(date) ==
    /\ left > 0
    /\ \E text \in {load_journal(context, disk)} :
          last' = Call("load_day", date, <<>>, text, extract_day_content(text, date), 1)
    /\ left' = left - 1
    /\ UNCHANGED <<journal, today, app, context, disk>>

\* save_day(date, content) with a journal context set
SaveDayOfSlot(date, content) ==
    /\ left > 0
    /\ \E text \in {load_journal(context, disk)} :
          /\ disk' = save_journal(context, disk, update_day_content(text, date, content))
          /\ last' = Call("save_day", date, content, text, <<>>, 1)
    /\ left' = left - 1
    /\ UNCHANGED <<journal, today, app, context>>

\* a run of SpecJournals: set_journal_context(global, project, active) on the
\* two files, then slot switches, loads and saves
InitJournals ==
    /\ journal = <<>>
    /\ today = 20260105
    /\ left = MaxCalls
    /\ last = NoCall
    /\ app = NoApp
    /\ context \in {JournalContext(GlobalPath, project, active) :
                      project \in {NoPath, ProjectPath}, active \in {Global, Project}}
    /\ disk = [p \in {GlobalPath, ProjectPath} |->
                 IF p = GlobalPath THEN GlobalDoc ELSE ProjectDoc]

NextJournals ==
    \/ \E slot \in {Global, Project} : SetActiveSlot(slot)
    \/ SetProjectPath(ProjectPath)
    \/ LoadJournal
    \/ \E content \in JournalTexts : SaveJournal(content)
    \/ \E date \in DateSet : LoadDayOfSlot(date)
    \/ \E date \in DateSet, content \in Contents : SaveDayOfSlot(date, content)

SpecJournals == InitJournals /\ [][NextJournals]_vars

\* the file the active slot selects: the project journal when the Project
\* slot is active and a project path is set, the global journal otherwise
SelectedPath ==
    IF context.active = Project /\ context.project_path # NoPath
    THEN context.project_path
    ELSE context.global_path

\* the step is a load that returned text of the selected file only
LoadReadsSelected ==
    /\ last'.op = "load_journal" => last'.ret = disk[SelectedPath]
    /\ last'.op = "load_day" =>
          last'.ret = extract_day_content(disk[SelectedPath], last'.date)

\* C22: journal isolation. Every load_journal and load_day reads only the
\* file selected by the active slot and every save_journal and save_day
\* writes only that file: a step leaves every other file as it was, and a
\* load returns text of the selected file; with the Project slot active and
\* no project path set, the selected file is the global journal.
C22_JournalIsolation ==
    [][/\ \A p \in DOMAIN disk : p # SelectedPath => (p \in DOMAIN disk' /\ disk'[p] = disk[p])
       /\ DOMAIN disk' = DOMAIN disk
       /\ last' # last => LoadReadsSelected]_vars

\* after a switch to the project journal and a save_day there, the project
\* file has changed and the global file is as it was
C22_Witness ==
    /\ last.op = "save_day"
    /\ context.active = Project
    /\ context.project_path = ProjectPath
    /\ disk[ProjectPath] # ProjectDoc
    /\ disk[GlobalPath] = GlobalDoc

\* the word is a shortcut the map can expand: a key of the map, with a
\* non-empty entry when the map is the tag map
KnownShortcut(w, map, tags) ==
    /\ w.key # <<>>
    /\ w.key \in DOMAIN map
    /\ tags => map[w.key] # <<>>

\* the texts that replace some of the known shortcuts of ws, each by its
\* expansion, and keep every other word
FrameExpansions(ws, map, tags) ==
    {join([i \in 1..Len(ws) |->
              IF i \in replaced
              THEN (IF tags THEN <<"#">> ELSE <<>>) \o map[ws[i].key]
              ELSE ws[i].text], <<" ">>) :
        replaced \in SUBSET {i \in 1..Len(ws) : KnownShortcut(ws[i], map, tags)}}

\* the $names of ws that are no key of the map, in order
RECURSIVE UnknownNames(_, _)
UnknownNames(ws, map) ==
    IF ws = <<>> THEN <<>>
    ELSE (IF ws[1].key # <<>> /\ ws[1].key \notin DOMAIN map THEN <<ws[1].text>> ELSE <<>>)
         \o UnknownNames(Tail(ws), map)

\* C23: unknown shortcuts are left alone. expand_saved_filters leaves every
\* $name that is no key of the map unchanged and lists it as unknown, and
\* expand_favorite_tags leaves every #digit without a non-empty entry
\* unchanged: only known shortcuts are replaced, all other text is kept.
C23_UnknownShortcutsKept ==
    /\ last.op = "expand_saved_filters" =>
          /\ last.ret.result \in FrameExpansions(last.in.words, last.in.map, FALSE)
          /\ last.ret.unknown = UnknownNames(last.in.words, last.in.map)
    /\ last.op = "expand_favorite_tags" =>
          last.ret \in FrameExpansions(last.in.words, last.in.map, TRUE)

\* C27: headers are recognized only as whole lines. With no line of the
\* document that is D's header, load_day(D) finds nothing, save_day(D, blank)
\* leaves the document as it was and save_day(D, content) adds D as a new
\* day next to the days that were there; the insertion point is the start
\* of a header line.
C27_HeadersAreWholeLines ==
    /\ (last.op = "load_day" /\ ~HasSection(last.before, last.date)) => last.ret = <<>>
    /\ (SavedBlank /\ ~HasSection(last.before, last.date)) => journal = last.before
    /\ (SavedText /\ ~HasSection(last.before, last.date)) =>
          /\ HeaderDates(journal) = InsertBeforeFirstGreater(HeaderDates(last.before), last.date)
          /\ \A p \in {find_insertion_point(last.before, last.date)} :
                p # None => (p = 0 \/ last.before[p] = "\n")

\* C28: normalization preserves the resolved date. For every natural phrase
\* p that parse_natural_date resolves to a date d, the marker written by
\* normalize_natural_dates("@p", today) resolves back to d through
\* extract_target_date with the same today.
C28_NormalizationPreservesDate ==
    (last.op = "normalize_phrase" /\ parse_natural_date(last.in, today) # None) =>
        extract_target_date(last.ret, today) = parse_natural_date(last.in, today)

\* the last call was a content change through a Filter location whose index
\* is in the cached filter results
FilterCall ==
    /\ last.op \in {"set_entry_content", "execute_content_operation", "execute_content_append"}
    /\ last.location.variant = "Filter"
    /\ last.app_before.view = "Filter"
    /\ last.location.index < Len(last.app_before.entries)

\* the content of the line stored in doc at the address of the location
StoredContent(doc, location) ==
    load_day_lines(doc, location.source_date)[location.line_index + 1].content

\* C29 for an address that holds an entry: after the call, the cached entry
\* at the index has the content of the line stored at the address, when it
\* had it before.
C29_CacheFollowsStore ==
    (/\ FilterCall
     /\ last.targeted
     /\ last.app_before.entries[last.location.index + 1]
            = StoredContent(last.before, last.location)) =>
        /\ IsEntryAt(load_day_lines(journal, last.location.source_date), last.location.line_index)
        /\ app.entries[last.location.index + 1] = StoredContent(journal, last.location)

\* C29 for an address that holds no entry: neither the stored document nor
\* the cached entries change.
C29_StaleLeavesCache ==
    (FilterCall /\ ~last.targeted) =>
        /\ journal = last.before
        /\ app.entries = last.app_before.entries

\* C29: filter cache coherence. After set_entry_content,
\* execute_content_operation or execute_content_append on a Filter location,
\* the cached filter-result entry at the index has the same content as the
\* line stored at the address; when no Entry line exists at that address,
\* neither the stored document nor the cached entry changes.
C29_FilterCacheCoherence ==
    C29_CacheFollowsStore /\ C29_StaleLeavesCache

\* C25: redo then undo still restores. After execute, undo, redo, undo, each
\* step executing the action the previous step returned, the content of the
\* target entry is the content C0 it had before the first execution; at any
\* point of the alternation the content is C0 after an undo and the
\* transformed content after a redo.
C25_RedoThenUndoRestores ==
    /\ (last.op = "restore" /\ last.targeted) =>
          /\ last.ret = "Ok"
          /\ TargetIsEntry
          /\ TargetContent = last.c0
    /\ (last.op = "redo" /\ last.targeted) =>
          /\ last.ret = "Ok"
          /\ TargetIsEntry
          /\ TargetContent = last.original
====
